---- MODULE Spec2Model ----
(***************************************************************************)
(* gramo-next backend: the token-bucket rate limiter                       *)
(* (app/utils/rate_limiter.py, app/agents.py) and the WritingAgent         *)
(* pipeline (app/services/writing_agent.py) that calls it.                 *)
(*                                                                         *)
(* Time is counted in whole seconds.  Python floats are modelled as exact  *)
(* rationals <<numerator, denominator>> in lowest terms; with             *)
(* tokens_per_minute = 3000 the refill of a whole second is 50 tokens, so  *)
(* tokens stays an integer.  asyncio.sleep(d) returns at the first whole   *)
(* second >= d or later.                                                   *)
(***************************************************************************)
EXTENDS Integers, Sequences, FiniteSets, TLC

VARIABLES
    now,            \* datetime.now(), seconds
    limiter_kind,   \* "utils": utils/rate_limiter.py, "agents": agents.py
    tokens,         \* TokenBucketRateLimiter.tokens
    last_update,    \* TokenBucketRateLimiter.last_update
    backoff_time,   \* TokenBucketRateLimiter.backoff_time, a rational
    lock,           \* owner of TokenBucketRateLimiter.lock, or NoProc
    waiters,        \* coroutines queued on the lock, FIFO
    lim_pc,         \* per coroutine: position in its limiter call
    lim_op,         \* per coroutine: "acquire" or "reset"
    tokens_needed,  \* per coroutine: argument of acquire
    wait_time,      \* per coroutine: wait_time computed by its acquire
    wake_at,        \* per coroutine: earliest end of its asyncio.sleep
    slept,          \* per coroutine: sleeps of its current limiter call
    retry_after,    \* per coroutine: int(wait_time) of RateLimitExceeded
    log_grants,     \* whether the history of grants is kept
    granted,        \* history: <<time, tokens_needed, forced wait, backoff_time>> per acquire that returned True
    serial,         \* history: limiter fields after the calls run one at a time
    ncalls,         \* limiter calls issued so far by the direct callers
    req,            \* per request: the locals of analyze_text and _process_with_agent
    crew,           \* the locals of one WritingCrew.analyze_text call (agents.py)
    recovery,       \* one upstream content on its way through clean_json_string and the parsers
    tools           \* the GroqAnalysisTool objects constructed so far

limVars == <<now, limiter_kind, tokens, last_update, backoff_time, lock, waiters,
             lim_pc, lim_op, tokens_needed, wait_time, wake_at, slept,
             retry_after, log_grants, granted, serial, ncalls>>

\* the state outside the limiter and the WritingAgent requests
auxVars == <<crew, recovery, tools>>

vars == <<limVars, req, auxVars>>

----------------------------------------------------------------------------
(* Bounds of the model *)

MaxTime == 10
MaxCalls == 4

(* Program constants *)

TOKENS_PER_MINUTE == 3000
FAIL_FAST_SECONDS == 30

Callers == {"c1", "c2"}
Requests == {"r1", "r2"}
FirstRequest == {"r1"}
Procs == Callers \cup Requests
NoProc == "none"

\* tokens_needed of the direct calls: within the budget, the whole budget, over it
NeededSet == {500, 1500, 3000, 3500}
TickSteps == {1, 10}
\* passage of time during a request, apart from its own sleeps
RequestTicks == {10}

----------------------------------------------------------------------------
(* Rationals *)

RECURSIVE GCD(_, _)
GCD(a, b) == IF b = 0 THEN a ELSE GCD(b, a % b)

Abs(x) == IF x < 0 THEN -x ELSE x

Rat(n, d) ==
    LET g == GCD(Abs(n), d)
    IN  IF n = 0 THEN <<0, 1>> ELSE <<n \div g, d \div g>>

\* p < q, compared by whole parts and then by the reciprocals of the
\* fractional parts, so that no product leaves the range of the integers
RECURSIVE RLess(_, _)
RLess(p, q) ==
    LET wp == p[1] \div p[2]
        wq == q[1] \div q[2]
        fp == p[1] % p[2]
        fq == q[1] % q[2]
    IN  IF wp # wq THEN wp < wq
        ELSE IF fq = 0 THEN FALSE
        ELSE IF fp = 0 THEN TRUE
        ELSE RLess(<<q[2], fq>>, <<p[2], fp>>)
RMax(p, q) == IF RLess(p, q) THEN q ELSE p
RMul(p, n, d) == Rat(p[1] * n, p[2] * d)
RInt(n) == <<n, 1>>
RFloor(p) == p[1] \div p[2]
RCeil(p) == (p[1] + p[2] - 1) \div p[2]

Min(a, b) == IF a < b THEN a ELSE b

----------------------------------------------------------------------------
(* TokenBucketRateLimiter *)

RefillNothing(tok, time_passed) == tok

\* min(tokens_per_minute, tokens + time_passed * (tokens_per_minute / 60))
Refill(tok, time_passed) ==
    Min(TOKENS_PER_MINUTE, tok + (time_passed * TOKENS_PER_MINUTE) \div 60)

\* max(((tokens_needed - tokens) * 60) / tokens_per_minute, backoff_time)
WaitTime(tok, needed, backoff) ==
    RMax(Rat((needed - tok) * 60, TOKENS_PER_MINUTE), backoff)

FailFastAt60(kind, wt) == kind = "utils" /\ RLess(RInt(60), wt)

\* if wait_time > 30: only utils/rate_limiter.py fails fast
FailFast(kind, wt) == kind = "utils" /\ RLess(RInt(FAIL_FAST_SECONDS), wt)

BackoffGrowSlow(b) == RMul(b, 11, 10)

BackoffGrowDouble(b) == RMul(b, 2, 1)

\* self.backoff_time *= 1.5
BackoffGrow(b) == RMul(b, 3, 2)

BackoffRelaxNoFloor(b) == RMul(b, 9, 10)

\* self.backoff_time = max(1.0, self.backoff_time * 0.9)
BackoffRelax(b) == RMax(RInt(1), RMul(b, 9, 10))

LockIgnored == TRUE

\* async with self.lock: the lock is free
LockFree == lock = NoProc

\* the coroutine at the head of the queue takes the free lock
CanEnter(p) == waiters # <<>> /\ Head(waiters) = p /\ LockFree

\* asyncio.sleep(wait_time) of acquire is over
SleepOver(p) == now >= wake_at[p]

\* The whole effect of one limiter call on <<tokens, last_update, backoff_time>>
\* when it runs alone, entered at time t.
SerialApply(s, kind, op, needed, t) ==
    IF op = "reset" THEN <<TOKENS_PER_MINUTE, t, RInt(1)>>
    ELSE LET tok == Refill(s[1], t - s[2])
             wt == WaitTime(tok, needed, s[3])
         IN  IF tok < needed
             THEN IF FailFast(kind, wt) THEN <<tok, t, s[3]>>
                  ELSE <<TOKENS_PER_MINUTE - needed, t, BackoffGrow(s[3])>>
             ELSE <<tok - needed, t, BackoffRelax(s[3])>>

\* acquire returns True for n tokens at the current time, after a forced wait
\* or without one, leaving backoff_time at b
Grant(n, forced, b) ==
    IF log_grants THEN Append(granted, <<now, n, forced, b>>) ELSE granted

\* A coroutine calls acquire(n) or reset(): it queues on the lock.
LimCall(p, op, n) ==
    /\ lim_pc[p] = "none"
    /\ lim_pc' = [lim_pc EXCEPT ![p] = "queued"]
    /\ lim_op' = [lim_op EXCEPT ![p] = op]
    /\ tokens_needed' = [tokens_needed EXCEPT ![p] = n]
    /\ waiters' = Append(waiters, p)
    /\ slept' = [slept EXCEPT ![p] = 0]
    /\ wait_time' = [wait_time EXCEPT ![p] = RInt(0)]
    /\ retry_after' = [retry_after EXCEPT ![p] = 0]
    /\ UNCHANGED <<now, log_grants, limiter_kind, tokens, last_update, backoff_time, lock,
                   wake_at, granted, serial>>

\* acquire, from taking the lock to its first suspension or its end
AcquireEnter(p) ==
    /\ lim_pc[p] = "queued" /\ lim_op[p] = "acquire"
    /\ CanEnter(p)
    /\ waiters' = Tail(waiters)
    /\ LET tok == Refill(tokens, now - last_update)
           n == tokens_needed[p]
           wt == WaitTime(tok, n, backoff_time)
       IN  /\ last_update' = now
           /\ serial' = SerialApply(serial, limiter_kind, "acquire", n, now)
           /\ IF tok < n
              THEN /\ wait_time' = [wait_time EXCEPT ![p] = wt]
                   /\ tokens' = tok
                   /\ IF FailFast(limiter_kind, wt)
                      THEN \* raise RateLimitExceeded; the lock is released
                           /\ lim_pc' = [lim_pc EXCEPT ![p] = "raised"]
                           /\ retry_after' = [retry_after EXCEPT ![p] = RFloor(wt)]
                           /\ lock' = NoProc
                           /\ UNCHANGED <<wake_at, slept>>
                      ELSE \* await asyncio.sleep(wait_time), holding the lock
                           /\ lim_pc' = [lim_pc EXCEPT ![p] = "sleeping"]
                           /\ wake_at' = [wake_at EXCEPT ![p] = now + RCeil(wt)]
                           /\ slept' = [slept EXCEPT ![p] = slept[p] + 1]
                           /\ lock' = p
                           /\ UNCHANGED retry_after
                   /\ UNCHANGED <<backoff_time, granted>>
              ELSE /\ backoff_time' = BackoffRelax(backoff_time)
                   /\ tokens' = tok - n
                   /\ lim_pc' = [lim_pc EXCEPT ![p] = "returned"]
                   /\ granted' = Grant(n, FALSE, BackoffRelax(backoff_time))
                   /\ lock' = NoProc
                   /\ UNCHANGED <<wait_time, wake_at, slept, retry_after>>
    /\ UNCHANGED <<now, log_grants, limiter_kind, lim_op, tokens_needed, ncalls, req, auxVars>>

\* acquire, from the end of its sleep to return True
AcquireWake(p) ==
    /\ lim_pc[p] = "sleeping"
    /\ SleepOver(p)
    /\ backoff_time' = BackoffGrow(backoff_time)
    /\ tokens' = TOKENS_PER_MINUTE - tokens_needed[p]
    /\ lim_pc' = [lim_pc EXCEPT ![p] = "returned"]
    /\ granted' = Grant(tokens_needed[p], TRUE, BackoffGrow(backoff_time))
    /\ lock' = IF lock = p THEN NoProc ELSE lock
    /\ UNCHANGED <<now, log_grants, limiter_kind, last_update, waiters, lim_op, tokens_needed,
                   wait_time, wake_at, slept, retry_after, serial, ncalls, req, auxVars>>

\* reset, once it holds the lock
ResetEnter(p) ==
    /\ lim_pc[p] = "queued" /\ lim_op[p] = "reset"
    /\ CanEnter(p)
    /\ waiters' = Tail(waiters)
    /\ tokens' = TOKENS_PER_MINUTE
    /\ last_update' = now
    /\ backoff_time' = RInt(1)
    /\ serial' = SerialApply(serial, limiter_kind, "reset", 0, now)
    /\ lim_pc' = [lim_pc EXCEPT ![p] = "returned"]
    /\ lock' = NoProc
    /\ UNCHANGED <<now, log_grants, limiter_kind, lim_op, tokens_needed, wait_time, wake_at,
                   slept, retry_after, granted, ncalls, req, auxVars>>

LockKept(p) == lock

\* leaving "async with self.lock" releases the lock the coroutine holds
ReleaseLock(p) == IF lock = p THEN NoProc ELSE lock

\* the queue of the lock without coroutine p
RECURSIVE Without(_, _)
Without(q, p) ==
    IF q = <<>> THEN <<>>
    ELSE IF Head(q) = p THEN Without(Tail(q), p)
         ELSE <<Head(q)>> \o Without(Tail(q), p)

\* The task of p is cancelled while acquire is suspended: CancelledError is
\* raised at the await where it waits, either the entry of "async with
\* self.lock" (it leaves the queue) or asyncio.sleep(wait_time) (the block is
\* left, which releases the lock, and the statements after the sleep do not run).
Cancel(p) ==
    /\ lim_op[p] = "acquire"
    /\ lim_pc[p] \in {"queued", "sleeping"}
    /\ lim_pc' = [lim_pc EXCEPT ![p] = "cancelled"]
    /\ waiters' = Without(waiters, p)
    /\ lock' = ReleaseLock(p)
    /\ UNCHANGED <<now, log_grants, limiter_kind, tokens, last_update, backoff_time,
                   lim_op, tokens_needed, wait_time, wake_at, slept, retry_after,
                   granted, serial, ncalls, req, auxVars>>

\* The caller takes the answer of its limiter call (True, RateLimitExceeded or
\* CancelledError).
LimTake(p) ==
    /\ lim_pc[p] \in {"returned", "raised", "cancelled"}
    /\ lim_pc' = [lim_pc EXCEPT ![p] = "none"]
    /\ lim_op' = [lim_op EXCEPT ![p] = "acquire"]
    /\ tokens_needed' = [tokens_needed EXCEPT ![p] = 0]
    /\ wait_time' = [wait_time EXCEPT ![p] = RInt(0)]
    /\ wake_at' = [wake_at EXCEPT ![p] = 0]
    /\ slept' = [slept EXCEPT ![p] = 0]
    /\ retry_after' = [retry_after EXCEPT ![p] = 0]
    /\ UNCHANGED <<now, log_grants, limiter_kind, tokens, last_update, backoff_time, lock,
                   waiters, granted, serial>>

\* The clock advances.
Tick(d) ==
    /\ now + d <= MaxTime
    /\ now' = now + d
    /\ UNCHANGED <<log_grants, limiter_kind, tokens, last_update, backoff_time, lock, waiters,
                   lim_pc, lim_op, tokens_needed, wait_time, wake_at, slept,
                   retry_after, granted, serial, ncalls, req, auxVars>>

\* the times at which the sleeps under way end
SleepEnds ==
    {wake_at[p] : p \in {x \in Procs : lim_pc[x] = "sleeping"}}
    \cup {req[r].retry_wake : r \in {x \in Requests : req[x].pc = "retry_sleep"}}

\* The clock advances to the end of the sleep that ends first.
Elapse ==
        /\ \E t \in SleepEnds : /\ t > now
                                /\ \A u \in SleepEnds : t <= u
                                /\ now' = t
        /\ UNCHANGED <<log_grants, limiter_kind, tokens, last_update, backoff_time, lock,
                       waiters, lim_pc, lim_op, tokens_needed, wait_time, wake_at, slept,
                       retry_after, granted, serial, ncalls, req, auxVars>>

----------------------------------------------------------------------------
(* WritingAgent: texts, prompts and upstream responses *)

MaxRetriesFour == 3 + 1

MAX_RETRIES == 3
BASE_DELAY == 3
RESPONSE_BUFFER == 500

StageOrderSwapped == <<"style", "grammar", "structure">>

\* the order of the three "if ... in (focus_areas or [])" blocks of analyze_text
StageOrder == <<"grammar", "style", "structure">>

NoText == "<no improved_text>"
NoStyle == "<None>"

\* len(text.split()) of the texts of the model
Words(t) ==
    CASE t = "" -> 0
      [] t = "   " -> 0
      [] t = "He go to school everyday." -> 5
      [] t = "He goes to school every day." -> 6
      [] t = "He attends school daily." -> 4
      [] t = "<text of 5000 words>" -> 5000
      [] t = "She walk to work." -> 4
      [] t = "She walks to work." -> 4
      [] t = "professional" -> 1
      [] t = "clarity" -> 1
      [] OTHER -> 1

InputTexts == {"", "   ", "He go to school everyday.", "<text of 5000 words>"}
ImprovedTexts == {"He goes to school every day.", "He attends school daily."}
Styles == {NoStyle, "professional"}

\* focus_areas: None, or a list of names in any order, with repetitions
FocusInputs ==
    { [is_none |-> TRUE, items |-> <<>>],
      [is_none |-> FALSE, items |-> <<>>],
      [is_none |-> FALSE, items |-> <<"grammar">>],
      [is_none |-> FALSE, items |-> <<"style", "grammar">>],
      [is_none |-> FALSE, items |-> <<"structure", "style", "grammar">>],
      [is_none |-> FALSE, items |-> <<"structure", "grammar", "grammar">>],
      [is_none |-> FALSE, items |-> <<"tone", "structure">>] }

IsBlankEmptyOnly(t) == t = ""

\* not text.strip()
IsBlank(t) == Words(t) = 0

InFocusDefaultAll(name, fa) ==
    LET items == IF fa.is_none \/ fa.items = <<>>
                 THEN <<"grammar", "style", "structure">> ELSE fa.items
    IN  \E i \in 1..Len(items) : items[i] = name

\* name in (focus_areas or [])
InFocus(name, fa) ==
    LET items == IF fa.is_none THEN <<>> ELSE fa.items
    IN  \E i \in 1..Len(items) : items[i] = name

\* style or 'clarity'
StyleOrClarity(st) == IF st = NoStyle \/ st = "" THEN "clarity" ELSE st

\* len(prompt.split()) of the prompt analyze_text builds for a stage
PromptWords(name, st, t) ==
    CASE name = "grammar" -> 8 + Words(t)
      [] name = "style" -> 9 + Words(StyleOrClarity(st)) + Words(t)
      [] name = "structure" -> 6 + Words(t)

EstimatedTokensNoBuffer(name, st, t) == PromptWords(name, st, t)

\* estimated_tokens = len(prompt.split()) + 500
EstimatedTokens(name, st, t) == PromptWords(name, st, t) + RESPONSE_BUFFER

RECURSIVE Pow2(_)
Pow2(k) == IF k = 0 THEN 1 ELSE 2 * Pow2(k - 1)

\* wait_time = base_delay * (2 ** attempt)
RetryDelay(attempt) == BASE_DELAY * Pow2(attempt)

(* The value of a stage's "analysis": None, a dict, or something that is no
   container.  issues is the stage's list ("issues", "suggestions",
   "flow_issues") when has_issues; an entry is "ok" or, when it lacks a key
   the aggregation reads, "malformed". *)
ANull == [kind |-> "None", empty |-> TRUE, improved_text |-> NoText,
          has_issues |-> FALSE, issues |-> <<>>]
ADict(imp, has, iss) == [kind |-> "dict", empty |-> FALSE, improved_text |-> imp,
                         has_issues |-> has, issues |-> iss]
AEmpty == [kind |-> "dict", empty |-> TRUE, improved_text |-> NoText,
           has_issues |-> FALSE, issues |-> <<>>]
ANotContainer == [kind |-> "not_container", empty |-> FALSE, improved_text |-> NoText,
                  has_issues |-> FALSE, issues |-> <<>>]

(* What _process_with_agent returns: None, a non-empty dict (analysis is
   response.get("analysis", {})), an empty dict, or a JSON value that is no dict. *)
RNone == [kind |-> "None", analysis |-> ANull]
RDict(a) == [kind |-> "dict", analysis |-> a]
REmptyDict == [kind |-> "empty_dict", analysis |-> ANull]
RNotDict == [kind |-> "not_dict", analysis |-> ANull]

ParsedValues ==
    { RDict(ADict(t, TRUE, <<"ok", "ok">>)) : t \in ImprovedTexts }
    \cup { RDict(ADict(NoText, TRUE, <<"ok">>)),
           RDict(ADict("He goes to school every day.", TRUE, <<"ok", "malformed">>)),
           RDict(AEmpty), RDict(ANotContainer), REmptyDict, RNotDict }

(* What one upstream attempt does after the limiter admitted it:
   RateLimitError   litellm.acompletion raises litellm.RateLimitError
   Exception        acompletion, or the handling of its content, raises another exception
   parse_fail       all three parsing attempts fail: return None
   not_dict_literal ast.literal_eval yields a value that is no dict: nothing is returned
   parsed           json.loads or ast.literal_eval yields the value returned *)
UpstreamOutcomes ==
    { [kind |-> k, value |-> RNone] :
          k \in {"RateLimitError", "Exception", "parse_fail", "not_dict_literal"} }
    \cup { [kind |-> "parsed", value |-> v] : v \in ParsedValues }

\* the router's answer: 200 with the result, or the status of the HTTPException
HttpStatus(exc) ==
    CASE exc = "none" -> 200
      [] exc = "RateLimitExceeded" -> 429
      [] exc = "ValueError" -> 400
      [] OTHER -> 500

----------------------------------------------------------------------------
(* WritingAgent.analyze_text and _process_with_agent, one request *)

IdleReq ==
    [pc |-> "idle", text |-> "", style |-> NoStyle,
     focus_areas |-> [is_none |-> TRUE, items |-> <<>>],
     stage |-> 1, attempt |-> 0, prompt_text |-> "",
     improved_text |-> "",
     analysis |-> [n \in {"grammar", "style", "structure"} |-> ANull],
     improvements |-> <<>>, retry_wake |-> 0, exc |-> "none", http_status |-> 0,
     \* history
     n_acquire |-> 0, n_upstream |-> 0, total_upstream |-> 0, finished |-> <<>>,
     failed |-> {}, rejected |-> FALSE, first_rejected |-> FALSE, text_before |-> ""]

\* analyze_text raises exc: the router answers with its status
Raised(q, exc) == [q EXCEPT !.pc = "raised", !.exc = exc, !.http_status = HttpStatus(exc)]

StageName(q) == StageOrder[q.stage]

\* lines 159-175: validation and the initial result
Start(r, t, st, fa) ==
    /\ req[r].pc = "idle"
    /\ LET q == [req[r] EXCEPT !.text = t, !.style = st, !.focus_areas = fa]
       IN  req' = [req EXCEPT ![r] =
                IF IsBlank(t) THEN Raised(q, "ValueError")
                ELSE [q EXCEPT !.pc = "stage", !.stage = 1, !.improved_text = t]]
    /\ UNCHANGED <<limVars, auxVars>>

\* a stage that is not in focus_areas is passed over
StageSkip(r) ==
    /\ req[r].pc = "stage"
    /\ req[r].stage <= Len(StageOrder)
    /\ ~InFocus(StageName(req[r]), req[r].focus_areas)
    /\ req' = [req EXCEPT ![r].stage = @ + 1]
    /\ UNCHANGED <<limVars, auxVars>>

\* one iteration of "for attempt in range(max_retries)" up to the await of acquire
BeginAttempt(r, q, a) ==
    /\ LimCall(r, "acquire", EstimatedTokens(StageName(q), q.style, q.prompt_text))
    /\ req' = [req EXCEPT ![r] =
            [q EXCEPT !.pc = "acquiring", !.attempt = a, !.n_acquire = @ + 1]]
    /\ UNCHANGED <<ncalls, auxVars>>

StageTextOriginal(q) == q.text

StageTextOfFirst(q) == IF StageName(q) = "grammar" THEN q.text ELSE req["r1"].improved_text

\* the text a stage's prompt embeds: text for grammar, result['improved_text'] after it
StageText(q) == IF StageName(q) = "grammar" THEN q.text ELSE q.improved_text

\* a requested stage: its prompt is built and _process_with_agent is entered
StageBegin(r) ==
    /\ req[r].pc = "stage"
    /\ req[r].stage <= Len(StageOrder)
    /\ InFocus(StageName(req[r]), req[r].focus_areas)
    /\ LET q == req[r]
           t == StageText(q)
       IN  BeginAttempt(r, [q EXCEPT !.prompt_text = t, !.rejected = FALSE,
                                     !.n_acquire = 0, !.n_upstream = 0,
                                     !.text_before = q.improved_text], 0)

StageReturnResetText(q, resp) ==
    LET name == StageName(q)
        a == resp.analysis
        next == [q EXCEPT !.pc = "stage", !.stage = @ + 1,
                          !.finished = Append(@, name),
                          !.failed = IF resp.kind = "None" THEN @ \cup {name} ELSE @]
    IN  IF resp.kind = "dict"
        THEN IF a.kind = "not_container"
             THEN \* "improved_text" in <no container>: TypeError, lines 231-233
                  Raised([q EXCEPT !.analysis[name] = a], "ValueError")
             ELSE [next EXCEPT !.analysis[name] = a,
                               !.improved_text =
                                   IF a.improved_text # NoText THEN a.improved_text ELSE q.text]
        ELSE next

StageReturnKeepText(q, resp) ==
    LET name == StageName(q)
        a == resp.analysis
        next == [q EXCEPT !.pc = "stage", !.stage = @ + 1,
                          !.finished = Append(@, name),
                          !.failed = IF resp.kind = "None" THEN @ \cup {name} ELSE @]
    IN  IF resp.kind = "dict"
        THEN IF a.kind = "not_container"
             THEN \* "improved_text" in <no container>: TypeError, lines 231-233
                  Raised([q EXCEPT !.analysis[name] = a], "ValueError")
             ELSE [next EXCEPT !.analysis[name] = a]
        ELSE next

\* lines 183-186 (and 191-194, 201-204): the stage's response enters the result
StageReturn(q, resp) ==
    LET name == StageName(q)
        a == resp.analysis
        next == [q EXCEPT !.pc = "stage", !.stage = @ + 1,
                          !.finished = Append(@, name),
                          !.failed = IF resp.kind = "None" THEN @ \cup {name} ELSE @]
    IN  IF resp.kind = "dict"
        THEN IF a.kind = "not_container"
             THEN \* "improved_text" in <no container>: TypeError, lines 231-233
                  Raised([q EXCEPT !.analysis[name] = a], "ValueError")
             ELSE [next EXCEPT !.analysis[name] = a,
                               !.improved_text =
                                   IF a.improved_text # NoText THEN a.improved_text ELSE @]
        ELSE next

HandleExceptionReraising(q) ==
    IF q.attempt < MAX_RETRIES - 1
    THEN [q EXCEPT !.pc = "retry_sleep", !.retry_wake = now + RetryDelay(q.attempt)]
    ELSE Raised(q, "Exception")

\* lines 308-315: except Exception
HandleException(q) ==
    IF q.attempt < MAX_RETRIES - 1
    THEN [q EXCEPT !.pc = "retry_sleep", !.retry_wake = now + RetryDelay(q.attempt)]
    ELSE StageReturn(q, RNone)

\* acquire returned True: litellm.acompletion is called
AcquireGranted(r) ==
    /\ req[r].pc = "acquiring"
    /\ lim_pc[r] = "returned"
    /\ LimTake(r)
    /\ req' = [req EXCEPT ![r].pc = "calling", ![r].n_upstream = @ + 1,
                          ![r].total_upstream = @ + 1]
    /\ UNCHANGED <<ncalls, auxVars>>

\* acquire raised RateLimitExceeded: the outer "except Exception" takes it
AcquireRejected(r) ==
    /\ req[r].pc = "acquiring"
    /\ lim_pc[r] = "raised"
    /\ LimTake(r)
    /\ LET q == req[r]
           first == q.finished = <<>> /\ q.n_acquire = 1
       IN  req' = [req EXCEPT ![r] =
                HandleException([q EXCEPT !.rejected = TRUE,
                                          !.first_rejected = @ \/ first])]
    /\ UNCHANGED <<ncalls, auxVars>>

\* the request after its upstream call has ended with outcome o
AfterUpstream(q, o) ==
    CASE o.kind = "RateLimitError" ->
             \* lines 302-306: sleep, whatever the attempt
             [q EXCEPT !.pc = "retry_sleep",
                       !.retry_wake = now + RetryDelay(q.attempt)]
      [] o.kind = "Exception" -> HandleException(q)
      [] o.kind = "parse_fail" -> StageReturn(q, RNone)
      [] o.kind = "not_dict_literal" -> [q EXCEPT !.pc = "next_attempt"]
      [] o.kind = "parsed" -> StageReturn(q, o.value)

\* the upstream call ends
UpstreamResponds(r, o) ==
    /\ req[r].pc = "calling"
    /\ req' = [req EXCEPT ![r] = AfterUpstream(req[r], o)]
    /\ UNCHANGED <<limVars, auxVars>>

\* asyncio.sleep(wait_time) of a retry is over
RetryOver(r) == now >= req[r].retry_wake

\* asyncio.sleep(wait_time) of a retry ends: continue
RetryWake(r) ==
    /\ req[r].pc = "retry_sleep"
    /\ RetryOver(r)
    /\ req' = [req EXCEPT ![r].pc = "next_attempt"]
    /\ UNCHANGED <<limVars, auxVars>>

\* the for loop goes on, or is exhausted: lines 317-318
NextAttempt(r) ==
    /\ req[r].pc = "next_attempt"
    /\ LET q == req[r]
       IN  IF q.attempt + 1 < MAX_RETRIES
           THEN BeginAttempt(r, q, q.attempt + 1)
           ELSE /\ req' = [req EXCEPT ![r] = StageReturn(q, RNone)]
                /\ UNCHANGED <<limVars, auxVars>>

\* the improvements one stage contributes, in the order of its list
StageImprovements(name, a) ==
    IF a.kind = "dict" /\ ~a.empty /\ a.has_issues
    THEN [i \in 1..Len(a.issues) |-> [area |-> name, index |-> i]]
    ELSE <<>>

\* an entry lacks a key the f-string reads: KeyError
CollectRaises(a) ==
    /\ a.kind = "dict" /\ ~a.empty /\ a.has_issues
    /\ \E i \in 1..Len(a.issues) : a.issues[i] = "malformed"

CollectImprovementsStyleFirst(an) ==
    StageImprovements("style", an["style"])
    \o StageImprovements("grammar", an["grammar"])
    \o StageImprovements("structure", an["structure"])

\* for area, analysis in result["analysis"].items(): the dict's insertion order
CollectImprovements(an) ==
    StageImprovements("grammar", an["grammar"])
    \o StageImprovements("style", an["style"])
    \o StageImprovements("structure", an["structure"])

\* lines 206-226: collect the improvements and return the result
Aggregate(r) ==
    /\ req[r].pc = "stage"
    /\ req[r].stage > Len(StageOrder)
    /\ LET q == req[r]
           an == q.analysis
       IN  req' = [req EXCEPT ![r] =
                IF \E n \in {"grammar", "style", "structure"} : CollectRaises(an[n])
                THEN Raised(q, "ValueError")
                ELSE [q EXCEPT !.pc = "done", !.http_status = HttpStatus("none"),
                               !.improvements = CollectImprovements(an)]]
    /\ UNCHANGED <<limVars, auxVars>>

\* the keys of the dict analyze_text returns (lines 164-175); nothing adds a key
ResultKeys == {"original_text", "improved_text", "text_stats", "tone_analysis",
               "analysis", "improvements"}

\* the dict analyze_text returns when it has run to "return result"
Result(q) ==
    [k \in ResultKeys |->
        CASE k = "original_text" -> q.text
          [] k = "improved_text" -> q.improved_text
          [] k = "text_stats" -> [fn |-> "calculate_text_stats", arg |-> q.text]
          [] k = "tone_analysis" -> [fn |-> "analyze_writing_tone", arg |-> q.text]
          [] k = "analysis" -> q.analysis
          [] k = "improvements" -> q.improvements]

----------------------------------------------------------------------------
(* WritingCrew and WritingAgents of agents.py *)

MAX_INPUT_LENGTH == 2000

\* A text of the crew: the first len characters of the content id, followed by
\* "..." when dots holds.
CrewLengths == {1999, 2000, 2001, 2500}
CrewTexts == [id : {"essay"}, len : CrewLengths, dots : {FALSE}]
CrewNoText == [id |-> "<no improved_text>", len |-> 0, dots |-> FALSE]
CrewImproved == [id |-> "improved essay", len |-> 1900, dots |-> FALSE]

\* len(text)
TextLen(t) == t.len + (IF t.dots THEN 3 ELSE 0)

\* text[:n] of a text of more than n characters that has no "..." before n
Prefix(t, n) == [id |-> t.id, len |-> n, dots |-> FALSE]

\* text + "..."
WithDots(t) == [t EXCEPT !.dots = TRUE]

TruncateAtLimit(t) ==
    IF TextLen(t) >= MAX_INPUT_LENGTH THEN WithDots(Prefix(t, MAX_INPUT_LENGTH)) ELSE t

\* if len(text) > max_input_length: text = text[:max_input_length] + "..."
Truncate(t) ==
    IF TextLen(t) > MAX_INPUT_LENGTH THEN WithDots(Prefix(t, MAX_INPUT_LENGTH)) ELSE t

(* The value a stage's response has under "analysis": None (JSON null), a
   value that is neither None nor a container, or a dict with or without
   improved_text and with the entries of the stage's list (issues, suggestions
   or flow_issues; a missing list reads as the empty one). *)
CNull == [kind |-> "None", improved_text |-> CrewNoText, issues |-> <<>>]
CNotContainer == [kind |-> "not_container", improved_text |-> CrewNoText, issues |-> <<>>]
CDict(imp, iss) == [kind |-> "dict", improved_text |-> imp, issues |-> iss]

\* response.get("analysis", {}) when the key is missing
CEmpty == CDict(CrewNoText, <<>>)

(* What WritingAgents._process_with_agent returns: None (exception, empty
   response, invalid JSON), a non-empty dict, or a JSON value that is empty or
   no dict. *)
CrewResponses ==
    { [kind |-> "None", analysis |-> CNull],
      [kind |-> "not_dict", analysis |-> CNull] }
    \cup { [kind |-> "dict", analysis |-> a] :
              a \in { CEmpty, CNull, CNotContainer,
                      CDict(CrewImproved, <<>>),
                      CDict(CrewNoText, <<"ok">>),
                      CDict(CrewImproved, <<"ok", "ok">>),
                      CDict(CrewImproved, <<"malformed">>) } }

EffectiveFocusAsGiven(fa) == IF fa.is_none THEN <<>> ELSE fa.items

\* focus_areas or ["grammar", "style", "structure"]
EffectiveFocus(fa) ==
    IF fa.is_none \/ fa.items = <<>> THEN <<"grammar", "style", "structure">> ELSE fa.items

\* the first block at or after k whose name is in the list, or 4
NextCrewStage(k, items) ==
    LET ks == {j \in k..3 : \E i \in 1..Len(items) : items[i] = StageOrder[j]}
    IN  IF ks = {} THEN 4 ELSE CHOOSE j \in ks : \A i \in ks : j <= i

\* the result dict WritingAgents.analyze_text starts from
CrewInitialResult(text) ==
    [original_text |-> text,
     improved_text |-> text,
     analysis |-> [n \in {"grammar", "style", "structure"} |-> CNull],
     improvements |-> <<>>]

\* WritingCrew._get_default_response(text, error)
DefaultResponse(text, error) ==
    [original_text |-> text,
     improved_text |-> text,
     analysis |-> [n \in {"grammar", "style", "structure"} |-> CNull],
     improvements |-> <<>>,
     error |-> error]

\* one list comprehension of "Collect all improvements"
CrewStageItems(name, a) ==
    IF a.kind = "dict" THEN [i \in 1..Len(a.issues) |-> [type |-> name, index |-> i]]
    ELSE <<>>

\* an entry lacks a key the comprehension reads: KeyError
CrewCollectRaises(a) ==
    a.kind = "dict" /\ \E i \in 1..Len(a.issues) : a.issues[i] = "malformed"

\* the three extend calls in their order; the first KeyError ends analyze_text,
\* which returns the result with the improvements added so far
CrewCollect(an) ==
    IF CrewCollectRaises(an["grammar"]) THEN <<>>
    ELSE CrewStageItems("grammar", an["grammar"]) \o
         (IF CrewCollectRaises(an["style"]) THEN <<>>
          ELSE CrewStageItems("style", an["style"]) \o
               (IF CrewCollectRaises(an["structure"]) THEN <<>>
                ELSE CrewStageItems("structure", an["structure"])))

\* has_improvements: result["analysis"][stage] is read with .get, which a value
\* that is no dict does not have (AttributeError); "or" stops at the first
\* operand that is true
HasImprovementsRaises(res) ==
    LET g == res.analysis["grammar"]
        st == res.analysis["style"]
        sr == res.analysis["structure"]
    IN  \/ g.kind # "dict"
        \/ /\ Len(g.issues) = 0
           /\ \/ st.kind # "dict"
              \/ Len(st.issues) = 0 /\ sr.kind # "dict"

HasImprovements(res) ==
    \/ \E n \in {"grammar", "style", "structure"} : Len(res.analysis[n].issues) > 0
    \/ Len(res.improvements) > 0

\* WritingCrew.analyze_text from the return of self.agents.analyze_text on
Verified(text, res) ==
    IF HasImprovementsRaises(res)
    THEN DefaultResponse(text, "'NoneType' object has no attribute 'get'")
    ELSE IF ~HasImprovements(res) /\ text # res.improved_text
         THEN DefaultResponse(text, "Analysis produced changes without recording improvements")
         ELSE res

NoReturn == [pending |-> TRUE]

IdleCrew ==
    [pc |-> "idle", given |-> CrewNoText, text |-> CrewNoText,
     asked |-> [is_none |-> TRUE, items |-> <<>>], focus |-> <<>>,
     stage |-> 1, prompt_text |-> CrewNoText,
     result |-> CrewInitialResult(CrewNoText), returned |-> NoReturn]

\* WritingAgents.analyze_text returns res to WritingCrew.analyze_text, which
\* returns in its turn
CrewFinish(c, res) ==
    [c EXCEPT !.pc = "done", !.stage = 4, !.result = res,
              !.returned = Verified(c.text, res)]

\* the call of the block k, or the end when no block is left
CrewAdvance(c, res, k) ==
    IF k <= 3
    THEN [c EXCEPT !.pc = "calling", !.stage = k, !.result = res,
                   !.prompt_text = IF StageOrder[k] = "grammar" THEN c.text
                                   ELSE res.improved_text]
    ELSE CrewFinish(c, [res EXCEPT !.improvements = CrewCollect(res.analysis)])

\* await crew.analyze_text(text, focus_areas=fa), up to the first upstream call
CrewStart(t, fa) ==
    /\ crew.pc = "idle"
    /\ LET text == Truncate(t)
           items == EffectiveFocus(fa)
           c == [crew EXCEPT !.given = t, !.text = text, !.asked = fa, !.focus = items]
       IN  crew' = CrewAdvance(c, CrewInitialResult(text), NextCrewStage(1, items))
    /\ UNCHANGED <<limVars, req, recovery, tools>>

\* _process_with_agent returns o for the block under way; analyze_text goes on
\* to its next upstream call or to its end
CrewRespond(o) ==
    /\ crew.pc = "calling"
    /\ LET name == StageOrder[crew.stage]
           res == crew.result
           a == o.analysis
       IN  crew' =
             IF o.kind # "dict"
             THEN CrewAdvance(crew, res, NextCrewStage(crew.stage + 1, crew.focus))
             ELSE LET set == [res EXCEPT !.analysis[name] = a]
                  IN  IF a.kind # "dict"
                      THEN \* "improved_text" in a: TypeError, return result
                           CrewFinish(crew, set)
                      ELSE CrewAdvance(crew,
                               IF a.improved_text # CrewNoText
                               THEN [set EXCEPT !.improved_text = a.improved_text]
                               ELSE set,
                               NextCrewStage(crew.stage + 1, crew.focus))
    /\ UNCHANGED <<limVars, req, recovery, tools>>

\* The caller takes the dict WritingCrew.analyze_text returned.
CrewTake ==
    /\ crew.pc = "done"
    /\ crew' = IdleCrew
    /\ UNCHANGED <<limVars, req, recovery, tools>>

----------------------------------------------------------------------------
(* clean_json_string and the parsing steps of _process_with_agent *)

(* A text is a sequence of characters. The characters that matter have names;
   Fence is the run of three backticks and JsonTag the word json after it,
   each kept as one element. *)
Quote == "<quote>"
Backslash == "<backslash>"
Newline == "<LF>"
Tab == "<TAB>"
CarriageReturn == "<CR>"
Backspace == "<BS>"
FormFeed == "<FF>"
Bell == "<BEL>"
Space == " "
Fence == "<three backticks>"
JsonTag == "json"
EndOfText == "<end>"

\* s[i], or EndOfText beyond the end
At(s, i) == IF i \in 1..Len(s) THEN s[i] ELSE EndOfText

\* s[i:]
From(s, i) == SubSeq(s, i, Len(s))

\* s[i-1:j], which is shorter when the text ends before j
Slice(s, i, j) == SubSeq(s, i, IF j > Len(s) THEN Len(s) ELSE j)

\* the first position at or after i where s has x, or 0
RECURSIVE IndexFrom(_, _, _)
IndexFrom(s, x, i) ==
    IF i > Len(s) THEN 0
    ELSE IF s[i] = x THEN i ELSE IndexFrom(s, x, i + 1)

\* re.findall(r'```(?:json)?(.*?)```', s, re.DOTALL): s = matches[0] if any
ExtractFence(s) ==
    LET i == IndexFrom(s, Fence, 1)
        start == IF At(s, i + 1) = JsonTag THEN i + 2 ELSE i + 1
        j == IndexFrom(s, Fence, start)
    IN  IF i = 0 \/ j = 0 THEN s ELSE SubSeq(s, start, j - 1)

Whitespace == {Space, Newline, Tab, CarriageReturn, FormFeed}

\* s.strip()
RECURSIVE Strip(_)
Strip(s) ==
    IF s = <<>> THEN s
    ELSE IF Head(s) \in Whitespace THEN Strip(Tail(s))
    ELSE IF s[Len(s)] \in Whitespace THEN Strip(SubSeq(s, 1, Len(s) - 1))
    ELSE s

\* the characters the class of the regular expression excludes: the quote, the
\* slash, the letters b f n r t u and the backslash
EscapeLetters == {Quote, "/", "b", "f", "n", "r", "t", "u", Backslash}

\* the re.sub of "Fix invalid escape sequences": from left to right, a backslash before
\* a character outside the class is dropped and the scan goes on after that
\* character
RECURSIVE DropInvalidEscapes(_)
DropInvalidEscapes(s) ==
    IF s = <<>> THEN s
    ELSE IF Head(s) = Backslash /\ Len(s) >= 2 /\ s[2] \notin EscapeLetters
         THEN <<s[2]>> \o DropInvalidEscapes(From(s, 3))
         ELSE <<Head(s)>> \o DropInvalidEscapes(Tail(s))

\* s.replace(backslash + c, to)
RECURSIVE ReplaceEscape(_, _, _)
ReplaceEscape(s, c, to) ==
    IF s = <<>> THEN s
    ELSE IF Head(s) = Backslash /\ Len(s) >= 2 /\ s[2] = c
         THEN <<to>> \o ReplaceEscape(From(s, 3), c, to)
         ELSE <<Head(s)>> \o ReplaceEscape(Tail(s), c, to)

\* the dict escapes in its order: the character after the backslash, and what
\* the pair is replaced by
Escapes ==
    << <<Quote, Quote>>, <<"n", Newline>>, <<"t", Tab>>, <<Backslash, Backslash>>,
       <<"/", "/">>, <<"b", Backspace>>, <<"f", FormFeed>>, <<"r", CarriageReturn>> >>

\* for escape_from, escape_to in escapes.items(): s = s.replace(...), from the k-th on
RECURSIVE ApplyEscapes(_, _)
ApplyEscapes(s, k) ==
    IF k > Len(Escapes) THEN s
    ELSE ApplyEscapes(ReplaceEscape(s, Escapes[k][1], Escapes[k][2]), k + 1)

\* clean_json_string(s); encoding to UTF-8 and back changes no character of
\* these texts
clean_json_string(s) == ApplyEscapes(DropInvalidEscapes(Strip(ExtractFence(s))), 1)

(* json.loads *)

\* a parse that failed; a parsed object has one member, key: val
ParseFail == [ok |-> FALSE, key |-> <<>>, val |-> <<>>, next |-> 0]
Parsed(k, v) == [ok |-> TRUE, key |-> k, val |-> v, next |-> 0]

ControlCharacters == {Newline, Tab, CarriageReturn, Backspace, FormFeed, Bell}

\* the character a JSON escape stands for
JsonUnescape(c) ==
    CASE c = Quote -> Quote
      [] c = Backslash -> Backslash
      [] c = "/" -> "/"
      [] c = "b" -> Backspace
      [] c = "f" -> FormFeed
      [] c = "n" -> Newline
      [] c = "r" -> CarriageReturn
      [] c = "t" -> Tab

\* the rest of a JSON string whose opening quote is before s[i]: strict, so a
\* control character inside it is an error; \u0007 is the only \u escape of
\* these texts
RECURSIVE ScanJsonString(_, _, _)
ScanJsonString(s, i, acc) ==
    LET c == At(s, i)
    IN  IF c = EndOfText \/ c \in ControlCharacters THEN ParseFail
        ELSE IF c = Quote THEN [ok |-> TRUE, key |-> <<>>, val |-> acc, next |-> i + 1]
        ELSE IF c = Backslash
             THEN IF At(s, i + 1) \in {Quote, Backslash, "/", "b", "f", "n", "r", "t"}
                  THEN ScanJsonString(s, i + 2, Append(acc, JsonUnescape(s[i + 1])))
                  ELSE IF Slice(s, i + 1, i + 5) = <<"u", "0", "0", "0", "7">>
                       THEN ScanJsonString(s, i + 6, Append(acc, Bell))
                       ELSE ParseFail
             ELSE ScanJsonString(s, i + 1, Append(acc, c))

\* the first position at or after i that holds no JSON whitespace
RECURSIVE SkipWs(_, _)
SkipWs(s, i) ==
    IF At(s, i) \in {Space, Newline, Tab, CarriageReturn} THEN SkipWs(s, i + 1) ELSE i

\* json.loads(s) for the texts of the model, where the only JSON documents are
\* objects with one member whose value is a string
JsonLoads(s) ==
    LET i1 == SkipWs(s, 1)
        i2 == SkipWs(s, i1 + 1)
        k == ScanJsonString(s, i2 + 1, <<>>)
        i3 == SkipWs(s, k.next)
        i4 == SkipWs(s, i3 + 1)
        v == ScanJsonString(s, i4 + 1, <<>>)
        i5 == SkipWs(s, v.next)
    IN  IF At(s, i1) # "{" \/ At(s, i2) # Quote THEN ParseFail
        ELSE IF ~k.ok \/ At(s, i3) # ":" \/ At(s, i4) # Quote THEN ParseFail
        ELSE IF ~v.ok \/ At(s, i5) # "}" \/ SkipWs(s, i5 + 1) # Len(s) + 1 THEN ParseFail
        ELSE Parsed(k.val, v.val)

(* Python's backslash escapes: the unicode-escape codec and string literals *)

\* what backslash + c decodes to; an unknown escape stays as it is
PyUnescape(c) ==
    CASE c = Quote -> <<Quote>>
      [] c = Backslash -> <<Backslash>>
      [] c = "n" -> <<Newline>>
      [] c = "t" -> <<Tab>>
      [] c = "r" -> <<CarriageReturn>>
      [] c = "b" -> <<Backspace>>
      [] c = "f" -> <<FormFeed>>
      [] c = "a" -> <<Bell>>
      [] c = Newline -> <<>>
      [] OTHER -> <<Backslash, c>>

\* s.encode('utf-8').decode('unicode-escape') raises: a backslash ends the text
RECURSIVE UnicodeEscapeRaises(_)
UnicodeEscapeRaises(s) ==
    IF s = <<>> THEN FALSE
    ELSE IF Head(s) = Backslash
         THEN Len(s) = 1 \/ UnicodeEscapeRaises(From(s, 3))
         ELSE UnicodeEscapeRaises(Tail(s))

\* s.encode('utf-8').decode('unicode-escape') of a text it does not raise on
RECURSIVE UnicodeEscape(_)
UnicodeEscape(s) ==
    IF s = <<>> THEN s
    ELSE IF Head(s) = Backslash /\ Len(s) >= 2
         THEN IF Slice(s, 2, 6) = <<"u", "0", "0", "0", "7">>
              THEN <<Bell>> \o UnicodeEscape(From(s, 7))
              ELSE PyUnescape(s[2]) \o UnicodeEscape(From(s, 3))
         ELSE <<Head(s)>> \o UnicodeEscape(Tail(s))

\* the rest of a Python string literal opened by one quote (triple = FALSE) or
\* by three (triple = TRUE)
RECURSIVE ScanPyString(_, _, _, _)
ScanPyString(s, i, triple, acc) ==
    LET c == At(s, i)
    IN  IF c = EndOfText THEN ParseFail
        ELSE IF c = Backslash
             THEN IF At(s, i + 1) = EndOfText THEN ParseFail
                  ELSE IF Slice(s, i + 1, i + 5) = <<"u", "0", "0", "0", "7">>
                       THEN ScanPyString(s, i + 6, triple, Append(acc, Bell))
                       ELSE ScanPyString(s, i + 2, triple, acc \o PyUnescape(s[i + 1]))
        ELSE IF triple
             THEN IF c = Quote /\ At(s, i + 1) = Quote /\ At(s, i + 2) = Quote
                  THEN [ok |-> TRUE, key |-> <<>>, val |-> acc, next |-> i + 3]
                  ELSE ScanPyString(s, i + 1, triple, Append(acc, c))
        ELSE IF c = Quote THEN [ok |-> TRUE, key |-> <<>>, val |-> acc, next |-> i + 1]
        ELSE IF c = Newline THEN ParseFail
        ELSE ScanPyString(s, i + 1, triple, Append(acc, c))

\* the first position at or after i that holds no whitespace of a Python
\* expression in brackets
RECURSIVE SkipPyWs(_, _)
SkipPyWs(s, i) ==
    IF At(s, i) \in {Space, Newline, Tab, FormFeed} THEN SkipPyWs(s, i + 1) ELSE i

\* adjacent string literals from s[i] on, which Python concatenates
RECURSIVE ScanPyStrings(_, _, _, _)
ScanPyStrings(s, i, any, acc) ==
    IF At(s, i) # Quote
    THEN IF any THEN [ok |-> TRUE, key |-> <<>>, val |-> acc, next |-> i] ELSE ParseFail
    ELSE LET triple == At(s, i + 1) = Quote /\ At(s, i + 2) = Quote
             r == ScanPyString(s, IF triple THEN i + 3 ELSE i + 1, triple, <<>>)
         IN  IF ~r.ok THEN ParseFail
             ELSE ScanPyStrings(s, SkipPyWs(s, r.next), TRUE, acc \o r.val)

\* ast.literal_eval(s) for the texts of the model: a dict display with one
\* item whose key and value are string literals, or a SyntaxError
LiteralEval(s) ==
    LET i1 == SkipPyWs(s, 2)
        k == ScanPyStrings(s, i1, FALSE, <<>>)
        i2 == SkipPyWs(s, k.next + 1)
        v == ScanPyStrings(s, i2, FALSE, <<>>)
    IN  IF At(s, 1) # "{" THEN ParseFail
        ELSE IF ~k.ok \/ At(s, k.next) # ":" THEN ParseFail
        ELSE IF ~v.ok \/ At(s, v.next) # "}" \/ SkipPyWs(s, v.next + 1) # Len(s) + 1
             THEN ParseFail
        ELSE Parsed(k.val, v.val)

\* the three parsing tries of _process_with_agent on the cleaned content: the
\* parsed dict, None, or the exception of the codec, which none of the three
\* handlers catches
ParseTries(cleaned) ==
    IF JsonLoads(cleaned).ok THEN [how |-> "json.loads", value |-> JsonLoads(cleaned)]
    ELSE IF UnicodeEscapeRaises(cleaned)
         THEN [how |-> "UnicodeDecodeError", value |-> ParseFail]
    ELSE IF JsonLoads(UnicodeEscape(cleaned)).ok
         THEN [how |-> "unicode-escape", value |-> JsonLoads(UnicodeEscape(cleaned))]
    ELSE IF LiteralEval(cleaned).ok
         THEN [how |-> "ast.literal_eval", value |-> LiteralEval(cleaned)]
    ELSE [how |-> "None", value |-> ParseFail]

\* the characters of a string as json.dumps writes them
RECURSIVE DumpsString(_)
DumpsString(v) ==
    IF v = <<>> THEN v
    ELSE (CASE Head(v) = Quote -> <<Backslash, Quote>>
            [] Head(v) = Backslash -> <<Backslash, Backslash>>
            [] Head(v) = Newline -> <<Backslash, "n">>
            [] Head(v) = Tab -> <<Backslash, "t">>
            [] Head(v) = CarriageReturn -> <<Backslash, "r">>
            [] Head(v) = Backspace -> <<Backslash, "b">>
            [] Head(v) = FormFeed -> <<Backslash, "f">>
            [] Head(v) = Bell -> <<Backslash, "u", "0", "0", "0", "7">>
            [] OTHER -> <<Head(v)>>) \o DumpsString(Tail(v))

\* json.dumps(d) of a parsed object
JsonDumps(d) ==
    <<"{", Quote>> \o DumpsString(d.key) \o <<Quote, ":", Space, Quote>>
    \o DumpsString(d.val) \o <<Quote, "}">>

(* The upstream contents of the model *)

MaxBody == 4

\* the contents of a JSON string, character by character, of at most n characters
RECURSIVE JsonBodies(_)
JsonBodies(n) ==
    IF n = 0 THEN {<<>>}
    ELSE LET shorter == JsonBodies(n - 1)
             shortest == IF n >= 2 THEN JsonBodies(n - 2) ELSE {}
         IN  shorter
             \cup {<<c>> \o b : c \in {"a", "n"}, b \in shorter}
             \cup {<<Backslash, c>> \o b : c \in {Quote, Backslash, "n"}, b \in shortest}

\* the JSON document {"k":"..."} with the given string contents
Document(body) == <<"{", Quote, "k", Quote, ":", Quote>> \o body \o <<Quote, "}">>

\* the document in a fenced block, with or without the tag, with or without
\* prose around it
Fenced(doc, tag, prose) ==
    (IF prose THEN <<"a", Space, "a", Newline>> ELSE <<>>)
    \o <<Fence>> \o (IF tag THEN <<JsonTag>> ELSE <<>>) \o <<Newline>>
    \o doc \o <<Newline, Fence>>
    \o (IF prose THEN <<Newline, "a">> ELSE <<>>)

Documents == {Document(b) : b \in JsonBodies(MaxBody)}

Contents ==
    Documents \cup {Fenced(d, tag, prose) : d \in Documents, tag \in BOOLEAN, prose \in BOOLEAN}

IdleRecovery ==
    [pc |-> "idle", content |-> <<>>, cleaned |-> <<>>, how |-> "None",
     value |-> ParseFail, rerun |-> FALSE]

\* content = response.choices[0].message.content
RecoveryReceive(c) ==
    /\ recovery.pc = "idle"
    /\ recovery' = [IdleRecovery EXCEPT !.pc = "received", !.content = c]
    /\ UNCHANGED <<limVars, req, crew, tools>>

\* cleaned_content = clean_json_string(content)
RecoveryClean ==
    /\ recovery.pc = "received"
    /\ recovery' = [recovery EXCEPT !.pc = "cleaned",
                                    !.cleaned = clean_json_string(recovery.content)]
    /\ UNCHANGED <<limVars, req, crew, tools>>

\* the three parsing tries
RecoveryParse ==
    /\ recovery.pc = "cleaned"
    /\ LET t == ParseTries(recovery.cleaned)
       IN  recovery' = [recovery EXCEPT !.pc = "done", !.how = t.how, !.value = t.value]
    /\ UNCHANGED <<limVars, req, crew, tools>>

\* the parsed dict is serialized and comes in as a content again
RecoveryRerun ==
    /\ recovery.pc = "done" /\ recovery.value.ok /\ ~recovery.rerun
    /\ recovery' = [IdleRecovery EXCEPT !.pc = "received",
                                        !.content = JsonDumps(recovery.value),
                                        !.rerun = TRUE]
    /\ UNCHANGED <<limVars, req, crew, tools>>

\* The caller takes the result of the parsing.
RecoveryTake ==
    /\ recovery.pc = "done"
    /\ recovery' = IdleRecovery
    /\ UNCHANGED <<limVars, req, crew, tools>>

----------------------------------------------------------------------------
(* GroqAnalysisTool of agents.py *)

MaxTools == 3

ToolKeys == {"test-key", "gsk_live", ""}
ToolModels == {"test-model", "mixtral-8x7b-32768", "llama3-70b-8192"}
ToolTasks == {"Analyze this text", ""}

GroqAnalysisToolNamedByModel(api_key, model) ==
    [name |-> model,
     description |-> "Tool for analyzing text using Groq API",
     api_key |-> api_key,
     model |-> model,
     last_request_time |-> 0,
     min_request_interval |-> RInt(1),
     consecutive_failures |-> 0,
     max_tokens |-> 250,
     methods |-> {"_wait_for_rate_limit", "_make_api_call", "func"}]

\* GroqAnalysisTool.__init__: the attributes of the new object; the model
\* argument is not kept
GroqAnalysisTool(api_key, model) ==
    [name |-> "analyze_with_groq",
     description |-> "Tool for analyzing text using Groq API",
     api_key |-> api_key,
     model |-> "mixtral-8x7b-32768",
     last_request_time |-> 0,
     min_request_interval |-> RInt(1),
     consecutive_failures |-> 0,
     max_tokens |-> 250,
     methods |-> {"_wait_for_rate_limit", "_make_api_call", "func"}]

\* tool = GroqAnalysisTool(api_key, model): calls is the number of upstream
\* completion calls made through the tool, returned what func last returned
CreateTool(api_key, model) ==
    /\ Len(tools) < MaxTools
    /\ tools' = Append(tools, [obj |-> GroqAnalysisTool(api_key, model),
                               calls |-> 0,
                               returned |-> NoReturn])
    /\ UNCHANGED <<limVars, req, crew, recovery>>

\* json.dumps({"error": str(e), "result": "Analysis failed"})
ToolErrorJson(e) == [error |-> e, result |-> "Analysis failed"]

\* await tool.func(task_description): TokenBucketRateLimiter has no
\* batch_requests, so the first statement raises AttributeError before any
\* await, and the handler returns the error JSON
ToolFunc(i, task) ==
    /\ i \in 1..Len(tools)
    /\ tools' = [tools EXCEPT ![i].returned = ToolErrorJson("AttributeError")]
    /\ UNCHANGED <<limVars, req, crew, recovery>>

(* Coroutines that call the limiter directly *)

CallAcquire(p, n) ==
    /\ ncalls < MaxCalls
    /\ ncalls' = ncalls + 1
    /\ LimCall(p, "acquire", n)
    /\ UNCHANGED <<req, auxVars>>

\* only utils/rate_limiter.py has reset
CallReset(p) ==
    /\ limiter_kind = "utils"
    /\ ncalls < MaxCalls
    /\ ncalls' = ncalls + 1
    /\ LimCall(p, "reset", 0)
    /\ UNCHANGED <<req, auxVars>>

\* A direct caller has its answer and may call again.
CallDone(p) == LimTake(p) /\ UNCHANGED <<ncalls, req, auxVars>>

LimInit(kinds, logging) ==
    /\ now = 0
    /\ log_grants = logging
    /\ limiter_kind \in kinds
    /\ tokens = TOKENS_PER_MINUTE
    /\ last_update = 0
    /\ backoff_time = RInt(1)
    /\ lock = NoProc
    /\ waiters = <<>>
    /\ lim_pc = [p \in Procs |-> "none"]
    /\ lim_op = [p \in Procs |-> "acquire"]
    /\ tokens_needed = [p \in Procs |-> 0]
    /\ wait_time = [p \in Procs |-> RInt(0)]
    /\ wake_at = [p \in Procs |-> 0]
    /\ slept = [p \in Procs |-> 0]
    /\ retry_after = [p \in Procs |-> 0]
    /\ granted = <<>>
    /\ serial = <<TOKENS_PER_MINUTE, 0, RInt(1)>>
    /\ ncalls = 0
    /\ req = [r \in Requests |-> IdleReq]
    /\ crew = IdleCrew
    /\ recovery = IdleRecovery
    /\ tools = <<>>

InitLimiter == LimInit({"utils"}, FALSE)

NextLimiter ==
    \/ \E p \in Callers, n \in NeededSet : CallAcquire(p, n)
    \/ \E p \in Callers : CallReset(p)
    \/ \E p \in Callers : AcquireEnter(p)
    \/ \E p \in Callers : AcquireWake(p)
    \/ \E p \in Callers : ResetEnter(p)
    \/ \E p \in Callers : CallDone(p)
    \/ \E d \in TickSteps : Tick(d)
    \/ Elapse

SpecLimiter == InitLimiter /\ [][NextLimiter]_vars

(* Upstream contents on their way through the recovery of _process_with_agent *)

InitRecovery == LimInit({"utils"}, FALSE)

NextRecovery ==
    \/ \E c \in Contents : RecoveryReceive(c)
    \/ RecoveryClean
    \/ RecoveryParse
    \/ RecoveryRerun
    \/ RecoveryTake

SpecRecovery == InitRecovery /\ [][NextRecovery]_vars

(* One WritingCrew.analyze_text call after the other *)

InitCrew == LimInit({"agents"}, FALSE)

NextCrew ==
    \/ \E t \in CrewTexts, fa \in FocusInputs : CrewStart(t, fa)
    \/ \E o \in CrewResponses : CrewRespond(o)
    \/ CrewTake

SpecCrew == InitCrew /\ [][NextCrew]_vars

(* Construction and use of GroqAnalysisTool objects *)

InitTool == LimInit({"agents"}, FALSE)

NextTool ==
    \/ \E k \in ToolKeys, m \in ToolModels : CreateTool(k, m)
    \/ \E i \in 1..MaxTools, task \in ToolTasks : ToolFunc(i, task)

SpecTool == InitTool /\ [][NextTool]_vars

(* Callers of acquire whose tasks may be cancelled *)

InitCancel == LimInit({"utils"}, FALSE)

\* the whole budget, which empties the bucket, and a size that then has to wait
CancelNeeded == {500, TOKENS_PER_MINUTE}

NextCancel ==
    \/ \E p \in Callers, n \in CancelNeeded : CallAcquire(p, n)
    \/ \E p \in Callers : AcquireEnter(p)
    \/ \E p \in Callers : AcquireWake(p)
    \/ \E p \in Callers : Cancel(p)
    \/ \E p \in Callers : CallDone(p)
    \/ \E d \in TickSteps : Tick(d)
    \/ Elapse

SpecCancel == InitCancel /\ [][NextCancel]_vars

(* One caller on a limiter that earlier forced waits have left with a raised
   backoff_time.  The clock of the limiter is time.time(), whose origin is
   arbitrary: time 0 is the moment the caller arrives, the earlier calls lie
   at negative times. *)

MaxForcedWaits == 9
ChainGap == 70
ChainNeeded == TOKENS_PER_MINUTE + RESPONSE_BUFFER
OneCaller == {"c1"}
\* a size that passes without a wait and the size of the earlier calls
BackoffNeeded == {RESPONSE_BUFFER, ChainNeeded}

\* <<tokens, last_update, backoff_time>> after k calls acquire(ChainNeeded),
\* entered ChainGap seconds apart, the last one at time t, on a limiter
\* constructed ChainGap seconds before the first
RECURSIVE Chain(_, _)
Chain(k, t) ==
    IF k = 0 THEN <<TOKENS_PER_MINUTE, t, RInt(1)>>
    ELSE SerialApply(Chain(k - 1, t - ChainGap), "utils", "acquire", ChainNeeded, t)

InitBackoff ==
    /\ now = 0
    /\ log_grants = FALSE
    /\ limiter_kind = "utils"
    /\ \E k \in 0..MaxForcedWaits :
           /\ serial = Chain(k, 0 - ChainGap)
           /\ tokens = serial[1]
           /\ last_update = serial[2]
           /\ backoff_time = serial[3]
    /\ lock = NoProc
    /\ waiters = <<>>
    /\ lim_pc = [p \in Procs |-> "none"]
    /\ lim_op = [p \in Procs |-> "acquire"]
    /\ tokens_needed = [p \in Procs |-> 0]
    /\ wait_time = [p \in Procs |-> RInt(0)]
    /\ wake_at = [p \in Procs |-> 0]
    /\ slept = [p \in Procs |-> 0]
    /\ retry_after = [p \in Procs |-> 0]
    /\ granted = <<>>
    /\ ncalls = 0
    /\ req = [r \in Requests |-> IdleReq]
    /\ crew = IdleCrew
    /\ recovery = IdleRecovery
    /\ tools = <<>>

NextBackoff ==
    \/ \E p \in OneCaller, n \in BackoffNeeded : CallAcquire(p, n)
    \/ \E p \in OneCaller : CallReset(p)
    \/ \E p \in OneCaller : AcquireEnter(p)
    \/ \E p \in OneCaller : AcquireWake(p)
    \/ \E p \in OneCaller : ResetEnter(p)
    \/ \E p \in OneCaller : CallDone(p)
    \/ \E d \in TickSteps : Tick(d)
    \/ Elapse

SpecBackoff == InitBackoff /\ [][NextBackoff]_vars

(* Callers of utils/rate_limiter.py under the scheduling of the asyncio event
   loop: a coroutine that can take the lock does take it, a sleep that is
   over returns, and the clock reaches the end of every sleep. *)

InitFair == LimInit({"utils"}, FALSE)

\* a size that has to wait after the whole budget was taken, and the budget
FairNeeded == {RESPONSE_BUFFER, TOKENS_PER_MINUTE}

NextFair ==
    \/ \E p \in Callers, n \in FairNeeded : CallAcquire(p, n)
    \/ \E p \in Callers : CallReset(p)
    \/ \E p \in Callers : AcquireEnter(p)
    \/ \E p \in Callers : AcquireWake(p)
    \/ \E p \in Callers : ResetEnter(p)
    \/ \E p \in Callers : CallDone(p)
    \/ \E d \in RequestTicks : Tick(d)
    \/ Elapse

Fairness ==
    /\ \A p \in Callers : WF_vars(AcquireEnter(p))
    /\ \A p \in Callers : WF_vars(AcquireWake(p))
    /\ \A p \in Callers : WF_vars(ResetEnter(p))
    /\ WF_vars(Elapse)

SpecFair == InitFair /\ [][NextFair]_vars /\ Fairness

(* The same callers on either limiter: utils/rate_limiter.py or agents.py *)

InitEither == LimInit({"utils", "agents"}, FALSE)

SpecEither == InitEither /\ [][NextLimiter]_vars

(* The requests of the WritingAgent of routers/text_analysis.py *)

Init == LimInit({"utils"}, FALSE)

Next ==
    \/ \E r \in FirstRequest, t \in InputTexts, st \in Styles, fa \in FocusInputs :
           Start(r, t, st, fa)
    \/ \E r \in FirstRequest : StageSkip(r)
    \/ \E r \in FirstRequest : StageBegin(r)
    \/ \E r \in FirstRequest : AcquireEnter(r)
    \/ \E r \in FirstRequest : AcquireWake(r)
    \/ \E r \in FirstRequest : AcquireGranted(r)
    \/ \E r \in FirstRequest : AcquireRejected(r)
    \/ \E r \in FirstRequest, o \in UpstreamOutcomes : UpstreamResponds(r, o)
    \/ \E r \in FirstRequest : RetryWake(r)
    \/ \E r \in FirstRequest : NextAttempt(r)
    \/ \E r \in FirstRequest : Aggregate(r)
    \/ \E d \in RequestTicks : Tick(d)
    \/ Elapse

Spec == Init /\ [][Next]_vars

(* Two analyze_text calls on the one WritingAgent of the router, in any
   interleaving; each request has its own text and its upstream calls answer
   with a text of their own *)

TwoTexts(r) ==
    IF r = "r1" THEN {"He go to school everyday."}
    ELSE {"She walk to work.", "<text of 5000 words>"}

TwoImproved(r) == IF r = "r1" THEN "He goes to school every day." ELSE "She walks to work."

TwoFocus ==
    { [is_none |-> FALSE, items |-> <<"style", "grammar">>],
      [is_none |-> FALSE, items |-> <<"structure", "style", "grammar">>] }

TwoOutcomes(r) ==
    { [kind |-> "parse_fail", value |-> RNone],
      [kind |-> "parsed", value |-> RDict(ADict(TwoImproved(r), TRUE, <<"ok">>))] }

NextTwo ==
    \/ \E r \in Requests : \E t \in TwoTexts(r), fa \in TwoFocus :
           Start(r, t, "professional", fa)
    \/ \E r \in Requests : StageSkip(r)
    \/ \E r \in Requests : StageBegin(r)
    \/ \E r \in Requests : AcquireEnter(r)
    \/ \E r \in Requests : AcquireWake(r)
    \/ \E r \in Requests : AcquireGranted(r)
    \/ \E r \in Requests : AcquireRejected(r)
    \/ \E r \in Requests : \E o \in TwoOutcomes(r) : UpstreamResponds(r, o)
    \/ \E r \in Requests : RetryWake(r)
    \/ \E r \in Requests : NextAttempt(r)
    \/ \E r \in Requests : Aggregate(r)
    \/ \E d \in RequestTicks : Tick(d)
    \/ Elapse

SpecTwo == Init /\ [][NextTwo]_vars

(* One caller that only calls acquire, with the history of grants kept *)

InitRate == LimInit({"utils"}, TRUE)

\* every request fits the budget
RateNeeded == {500, 1500, 3000}

NextRate ==
    \/ \E n \in RateNeeded : CallAcquire("c1", n)
    \/ AcquireEnter("c1")
    \/ AcquireWake("c1")
    \/ CallDone("c1")
    \/ \E d \in TickSteps : Tick(d)
    \/ Elapse

SpecRate == InitRate /\ [][NextRate]_vars

(* A burst on the limiter of agents.py, which always blocks and waits: the
   callers ask for the full budget each time *)

InitBurst == LimInit({"agents"}, TRUE)

NextBurst ==
    \/ \E p \in Callers : CallAcquire(p, TOKENS_PER_MINUTE)
    \/ \E p \in Callers : AcquireEnter(p)
    \/ \E p \in Callers : AcquireWake(p)
    \/ \E p \in Callers : CallDone(p)
    \/ \E d \in TickSteps : Tick(d)
    \/ Elapse

SpecBurst == InitBurst /\ [][NextBurst]_vars

----------------------------------------------------------------------------
(* Properties of the rate limiter *)

InProgress(p) == lim_pc[p] = "sleeping"

\* C5: whenever no acquire is in progress, 0 <= tokens <= tokens_per_minute,
\* for any positive tokens_needed, also one larger than tokens_per_minute.
C5_TokensWithinBudget ==
    (\A p \in Procs : ~InProgress(p)) => (0 <= tokens /\ tokens <= TOKENS_PER_MINUTE)

RECURSIVE SumGranted(_, _)
SumGranted(i, j) == IF i > j THEN 0 ELSE granted[i][2] + SumGranted(i + 1, j)

\* C6: the tokens granted inside any window of T seconds are at most one full
\* bucket plus the refill of the window, tokens_per_minute + T * tokens_per_minute / 60.
C6_RateCeiling ==
    \A i \in 1..Len(granted) : \A j \in i..Len(granted) :
        SumGranted(i, j) * 60 <=
            TOKENS_PER_MINUTE * 60 + (granted[j][1] - granted[i][1]) * TOKENS_PER_MINUTE

\* C7: at most one coroutine is between its refill read and its final deduction,
\* also while it sleeps, and whenever the lock is free tokens, last_update and
\* backoff_time are those of running the calls one at a time in the order they
\* took the lock.
C7_Serialized ==
    /\ Cardinality({p \in Procs : InProgress(p)}) <= 1
    /\ \A p \in Procs : InProgress(p) <=> lock = p
    /\ lock = NoProc => <<tokens, last_update, backoff_time>> = serial

\* another coroutine waits for the lock while one sleeps in acquire
C7_Witness ==
    \E p \in Callers : \E q \in Callers :
        /\ lim_pc[p] = "sleeping" /\ lock = p
        /\ lim_pc[q] = "queued" /\ waiters = <<q>>

\* C8: in utils/rate_limiter.py an acquire whose wait_time exceeds 30 seconds
\* raises RateLimitExceeded with a positive retry-after value and never sleeps.
C8_FailFast ==
    limiter_kind = "utils" =>
        \A p \in Procs :
            /\ lim_pc[p] = "raised" =>
                   /\ RLess(RInt(30), wait_time[p])
                   /\ retry_after[p] > 0
                   /\ slept[p] = 0
            /\ lim_pc[p] = "sleeping" =>
                   /\ (tokens_needed[p] - tokens) * 60 <= 30 * TOKENS_PER_MINUTE
                   /\ ~RLess(RInt(30), backoff_time)

C8_Witness ==
    \E p \in Procs :
        /\ lim_pc[p] = "raised"
        /\ RLess(RInt(30), wait_time[p])
        /\ tokens < tokens_needed[p]

\* C9: backoff_time >= 1.0 in every reachable state.
C9_BackoffAtLeastOne == ~RLess(backoff_time, RInt(1))

\* a wait has raised backoff_time and a later success has relaxed it
C9_Witness ==
    /\ RLess(RInt(1), backoff_time)
    /\ RLess(backoff_time, <<3, 2>>)

----------------------------------------------------------------------------
(* Properties of WritingAgent.analyze_text *)

StageNames == {"grammar", "style", "structure"}
CanonicalRank(n) == CASE n = "grammar" -> 1 [] n = "style" -> 2 [] n = "structure" -> 3
InProcess(q) == q.pc \in {"acquiring", "calling", "retry_sleep", "next_attempt"}
Ended(q) == q.pc \in {"done", "raised"}
InSeq(x, seq) == \E i \in 1..Len(seq) : seq[i] = x

\* C1: whatever the order and repetitions of focus_areas, while a stage is being
\* processed every requested stage before it in the order grammar, style,
\* structure has finished, and neither it nor any stage after it has run.
C1_CanonicalOrder ==
    \A r \in Requests :
        LET q == req[r]
        IN  (InProcess(q) /\ q.stage <= 3) =>
                \A m \in StageNames :
                    IF CanonicalRank(m) < CanonicalRank(StageOrder[q.stage])
                    THEN InFocus(m, q.focus_areas) <=> InSeq(m, q.finished)
                    ELSE ~InSeq(m, q.finished)

\* focus_areas in reverse order: the structure call is in flight after grammar and style
C1_Witness ==
    \E r \in Requests :
        /\ req[r].focus_areas.items = <<"structure", "style", "grammar">>
        /\ req[r].pc = "calling"
        /\ StageOrder[req[r].stage] = "structure"
        /\ req[r].finished = <<"grammar", "style">>

\* C2: a stage whose invocation fails leaves analysis[stage] null and
\* improved_text as it was before the stage, raises nothing, and every later
\* requested stage is still attempted.
C2_FailedStageAbsorbed ==
    \A r \in Requests :
        LET q == req[r]
        IN  /\ \A n \in q.failed : q.analysis[n] = ANull
            /\ (q.pc = "stage" /\ q.finished # <<>>
                    /\ q.finished[Len(q.finished)] \in q.failed)
                   => q.improved_text = q.text_before
            /\ (q.pc = "raised" /\ ~IsBlank(q.text))
                   => \E n \in StageNames : q.analysis[n] # ANull
            /\ q.pc = "done"
                   => \A n \in StageNames :
                          InFocus(n, q.focus_areas) => InSeq(n, q.finished)

\* grammar failed, style was still attempted and succeeded, the result is returned
C2_Witness ==
    \E r \in Requests :
        /\ req[r].pc = "done"
        /\ req[r].failed = {"grammar"}
        /\ req[r].finished = <<"grammar", "style">>
        /\ req[r].analysis["style"] # ANull

\* C3: when rate_limiter.acquire raises RateLimitExceeded the exception leaves
\* _process_with_agent at once: no retry sleep, no further acquire and no
\* upstream call follow for that stage.
C3_RejectionLeavesAtOnce ==
    \A r \in Requests : req[r].rejected => ~InProcess(req[r])

\* C4: if the limiter rejects the first acquire of the first requested stage,
\* analyze_text raises RateLimitExceeded and the router answers 429.
C4_FirstRejectionIs429 ==
    \A r \in Requests :
        (req[r].first_rejected /\ Ended(req[r])) =>
            /\ req[r].pc = "raised"
            /\ req[r].exc = "RateLimitExceeded"
            /\ req[r].http_status = 429

\* What is left of a request: stages, then attempts, then the steps of an attempt.
Remaining(q) ==
    CASE q.pc = "idle" -> 1000
      [] Ended(q) -> 0
      [] q.pc = "stage" -> (5 - q.stage) * 100
      [] OTHER -> (4 - q.stage) * 100 + 50 + (3 - q.attempt) * 10
                  + (CASE q.pc = "acquiring" -> 4 [] q.pc = "calling" -> 3
                       [] q.pc = "retry_sleep" -> 2 [] q.pc = "next_attempt" -> 1)

\* The request is not stuck where it waits for the limiter or for a sleep: a
\* step of its acquire is possible, or a sleep under way has still to end.
\* (The steps at the other positions wait for nothing but the upstream call.)
CanGoOn(r) ==
    CASE req[r].pc = "acquiring" ->
             \/ lim_pc[r] \in {"returned", "raised"}
             \/ lim_pc[r] = "queued" /\ (CanEnter(r) \/ \E t \in SleepEnds : t > now)
             \/ lim_pc[r] = "sleeping" /\ (SleepOver(r) \/ \E t \in SleepEnds : t > now)
      [] req[r].pc = "retry_sleep" -> RetryOver(r) \/ \E t \in SleepEnds : t > now
      [] req[r].pc = "stage" -> req[r].stage \in 1..4
      [] OTHER -> TRUE

\* C10: a stage makes at most 3 upstream calls and at most 3 acquires, one
\* analyze_text call makes at most 9 upstream calls, and the call terminates:
\* every step of it lowers Remaining, and until it has ended a step of it, or
\* the end of the sleep it waits for, is possible.
C10_BoundedCalls ==
    /\ [](\A r \in Requests :
            /\ req[r].n_upstream <= 3
            /\ req[r].n_acquire <= 3
            /\ req[r].total_upstream <= 9
            /\ Remaining(req[r]) >= 0
            /\ (req[r].pc # "idle" /\ ~Ended(req[r])) => CanGoOn(r))
    /\ [][\A r \in Requests :
            req'[r] # req[r] => Remaining(req'[r]) < Remaining(req[r])]_vars

\* three stages, three upstream calls each, and the result is returned
C10_Witness ==
    \E r \in Requests :
        /\ req[r].pc = "done"
        /\ req[r].total_upstream = 9
        /\ req[r].failed = {"grammar", "style", "structure"}

----------------------------------------------------------------------------
(* Properties of the retries and of the result *)

\* the stages analyze_text was asked for
Requested(q) == {n \in StageNames : InFocus(n, q.focus_areas)}

\* C11: a retry wait follows a failed attempt i only when another attempt is
\* left (i < 2), it lasts base_delay * 2^i seconds, and no wait follows the
\* failure of the final attempt.
C11_NoWaitAfterFinalAttempt ==
    \A r \in Requests :
        req[r].pc = "retry_sleep" =>
            /\ req[r].attempt < MAX_RETRIES - 1
            /\ req[r].retry_wake <= now + RetryDelay(req[r].attempt)

\* C12: for a text that is not blank analyze_text returns a result, whatever
\* the upstream calls do, unless the limiter rejected the first stage.
C12_AlwaysReturns ==
    \A r \in Requests :
        (Ended(req[r]) /\ Words(req[r].text) > 0 /\ ~req[r].first_rejected)
            => req[r].pc = "done"

\* C13: when every requested stage has failed the result has improved_text equal
\* to the input and an "error" entry holding a non-empty summary.
C13_AllFailedHasError ==
    \A r \in Requests :
        LET q == req[r]
        IN  (q.pc = "done" /\ Requested(q) # {} /\ Requested(q) \subseteq q.failed)
                => /\ Result(q)["improved_text"] = q.text
                   /\ "error" \in DOMAIN Result(q)
                   /\ Result(q)["error"] # ""

\* the outcomes in which litellm.acompletion returned a response with content
ContentOutcomes == {o \in UpstreamOutcomes : o.kind # "RateLimitError"}

\* C14: whatever content a successful upstream call returned, also content the
\* parsing of which raises, _process_with_agent goes on to another attempt or
\* returns None or the parsed value; an exception can only come from
\* analyze_text, after it has taken the value returned.
C14_NeverRaises ==
    \A r \in Requests :
        req[r].pc = "calling" =>
            \A o \in ContentOutcomes :
                LET q == req[r]
                    n == AfterUpstream(q, o)
                    name == StageName(q)
                IN  /\ n.pc \in {"retry_sleep", "next_attempt", "stage", "raised"}
                    /\ n.pc = "stage" => (name \in n.failed \/ o.kind = "parsed")
                    /\ n.pc = "raised" =>
                           /\ o.kind = "parsed"
                           /\ n.exc = "ValueError"
                           /\ n.analysis[name] = o.value.analysis

\* the third attempt of a stage got content and the stage ended with None
C14_Witness ==
    \E r \in Requests :
        /\ req[r].pc = "stage"
        /\ req[r].n_upstream = MAX_RETRIES
        /\ req[r].finished # <<>>
        /\ req[r].finished[Len(req[r].finished)] \in req[r].failed

\* the outcomes in which content came back and no parsing step yielded a dict
ParseFailures == {o \in UpstreamOutcomes : o.kind \in {"parse_fail", "not_dict_literal"}}

\* C15: a parse failure ends its stage with a null result after that upstream
\* call: no further attempt, hence no further acquire or upstream call, follows.
C15_ParseFailureTerminal ==
    \A r \in Requests :
        req[r].pc = "calling" =>
            \A o \in ParseFailures :
                LET q == req[r]
                    n == AfterUpstream(q, o)
                    name == StageName(q)
                IN  \/ /\ n.pc = "stage"
                       /\ n.stage = q.stage + 1
                       /\ n.analysis[name] = ANull
                    \/ /\ n.pc = "next_attempt"
                       /\ ~(n.attempt + 1 < MAX_RETRIES)

\* C16: a request (with a text that is not blank) whose focus_areas is the empty
\* list makes no limiter acquire and no upstream call, and its result has
\* improved_text equal to the input, the three analysis entries null and no
\* improvements.
C16_EmptyFocusUntouched ==
    \A r \in Requests :
        LET q == req[r]
        IN  (q.pc # "idle" /\ ~q.focus_areas.is_none /\ q.focus_areas.items = <<>>
                 /\ Words(q.text) > 0)
                => /\ q.pc \in {"stage", "done"}
                   /\ q.n_acquire = 0 /\ q.total_upstream = 0 /\ q.finished = <<>>
                   /\ lim_pc[r] = "none" /\ tokens = TOKENS_PER_MINUTE
                   /\ q.pc = "done" =>
                          /\ Result(q)["improved_text"] = q.text
                          /\ Result(q)["original_text"] = q.text
                          /\ \A n \in StageNames : Result(q)["analysis"][n] = ANull
                          /\ Result(q)["improvements"] = <<>>

C16_Witness ==
    \E r \in Requests :
        /\ req[r].pc = "done"
        /\ ~req[r].focus_areas.is_none /\ req[r].focus_areas.items = <<>>
        /\ req[r].text = "He go to school everyday."
        /\ req[r].http_status = 200

\* C17: with an empty or whitespace-only text analyze_text raises ValueError
\* (HTTP 400) before any limiter acquire or upstream call; tokens and
\* backoff_time of the limiter stay as they were.
C17_BlankTextRejected ==
    \A r \in Requests :
        LET q == req[r]
        IN  (q.pc # "idle" /\ Words(q.text) = 0)
                => /\ q.pc = "raised" /\ q.exc = "ValueError" /\ q.http_status = 400
                   /\ q.n_acquire = 0 /\ q.total_upstream = 0
                   /\ lim_pc[r] = "none"
                   /\ tokens = TOKENS_PER_MINUTE /\ backoff_time = RInt(1)

\* a whitespace-only text has been rejected
C17_Witness ==
    \E r \in Requests :
        /\ req[r].pc = "raised"
        /\ req[r].text = "   "
        /\ req[r].exc = "ValueError"

----------------------------------------------------------------------------
(* Properties of the text carried from stage to stage *)

\* the parsed payloads whose analysis is a dict without the key improved_text
PayloadsWithoutText ==
    {v \in ParsedValues : v.kind = "dict" /\ v.analysis.kind = "dict"
                              /\ v.analysis.improved_text = NoText}

\* C18: a payload whose analysis has no improved_text is recorded as the
\* stage's analysis and leaves improved_text as it was before the stage; that
\* text is what the prompt of a later stage embeds.
C18_MissingTextCarriesOver ==
    \A r \in Requests :
        LET q == req[r]
        IN  /\ q.pc = "calling" =>
                   \A v \in PayloadsWithoutText :
                       LET n == StageReturn(q, v)
                       IN  /\ n.pc = "stage" /\ n.stage = q.stage + 1
                           /\ n.analysis[StageName(q)] = v.analysis
                           /\ n.analysis[StageName(q)] # ANull
                           /\ n.improved_text = q.text_before
            /\ (InProcess(q) /\ StageName(q) # "grammar") =>
                   q.prompt_text = q.improved_text

\* grammar gave an improved text, style gave an analysis without one
C18_Witness ==
    \E r \in Requests :
        /\ req[r].pc = "calling"
        /\ StageName(req[r]) = "structure"
        /\ req[r].analysis["grammar"].improved_text = "He goes to school every day."
        /\ req[r].analysis["style"].kind = "dict"
        /\ req[r].analysis["style"].improved_text = NoText
        /\ req[r].prompt_text = "He goes to school every day."

\* the improved_text of the last stage before stage k (in the order of
\* StageOrder) whose recorded analysis has one, or the original text
LastImproved(q, k) ==
    LET S == {i \in 1..(k - 1) : /\ q.analysis[StageOrder[i]].kind = "dict"
                                 /\ q.analysis[StageOrder[i]].improved_text # NoText}
    IN  IF S = {} THEN q.text
        ELSE q.analysis[StageOrder[CHOOSE i \in S : \A j \in S : j <= i]].improved_text

\* C19: a request has at most one limiter acquire or upstream call in flight,
\* and the prompts of style and structure embed the improved_text of the most
\* recent earlier stage that gave one, or the original text.
C19_SequentialStages ==
    \A r \in Requests :
        LET q == req[r]
        IN  /\ lim_pc[r] # "none" => q.pc = "acquiring"
            /\ q.pc = "calling" => lim_pc[r] = "none"
            /\ (InProcess(q) /\ StageName(q) \in {"style", "structure"}) =>
                   q.prompt_text = LastImproved(q, q.stage)

\* grammar and style both gave a text: the structure prompt embeds that of style
C19_Witness ==
    \E r \in Requests :
        /\ req[r].pc = "calling"
        /\ StageName(req[r]) = "structure"
        /\ req[r].analysis["grammar"].improved_text = "He goes to school every day."
        /\ req[r].analysis["style"].improved_text = "He attends school daily."
        /\ req[r].prompt_text = "He attends school daily."

\* C20: in the result a stage that was not requested has a null analysis and
\* was never run, and improved_text is that of the last requested stage that
\* gave one (the input if none did).
C20_UnrequestedStagesNull ==
    \A r \in Requests :
        LET q == req[r]
        IN  /\ InProcess(q) => StageName(q) \in Requested(q)
            /\ q.pc = "done" =>
                   /\ \A n \in StageNames \ Requested(q) :
                          Result(q)["analysis"][n] = ANull /\ ~InSeq(n, q.finished)
                   /\ Result(q)["improved_text"] = LastImproved(q, Len(StageOrder) + 1)

\* only grammar was requested and gave an improved text
C20_Witness ==
    \E r \in Requests :
        /\ req[r].pc = "done"
        /\ req[r].focus_areas.items = <<"grammar">>
        /\ req[r].analysis["grammar"].improved_text = "He goes to school every day."
        /\ req[r].improved_text = "He goes to school every day."
        /\ req[r].analysis["style"] = ANull /\ req[r].analysis["structure"] = ANull

----------------------------------------------------------------------------
(* Properties of the improvements list *)

\* C21: in the improvements of a result the entries of grammar come before
\* those of style, which come before those of structure, and the entries of
\* one stage are in the order of that stage's list, one entry per issue.
C21_ImprovementsInStageOrder ==
    \A r \in Requests :
        LET q == req[r]
            imp == Result(q)["improvements"]
        IN  q.pc = "done" =>
                /\ \A i \in 1..Len(imp) : \A j \in (i + 1)..Len(imp) :
                       \/ CanonicalRank(imp[i].area) < CanonicalRank(imp[j].area)
                       \/ imp[i].area = imp[j].area /\ imp[i].index < imp[j].index
                /\ \A n \in StageNames :
                       (q.analysis[n].kind = "dict" /\ q.analysis[n].has_issues) =>
                           \A k \in 1..Len(q.analysis[n].issues) :
                               \E i \in 1..Len(imp) : imp[i] = [area |-> n, index |-> k]

\* the three stages each gave issues: two of grammar, then style, then structure
C21_Witness ==
    \E r \in Requests :
        /\ req[r].pc = "done"
        /\ Len(req[r].improvements) >= 4
        /\ req[r].improvements[1] = [area |-> "grammar", index |-> 1]
        /\ req[r].improvements[2] = [area |-> "grammar", index |-> 2]
        /\ req[r].improvements[3].area = "style"
        /\ req[r].improvements[Len(req[r].improvements)].area = "structure"

----------------------------------------------------------------------------
(* Properties of the backoff under contention *)

\* backoff_time as the i-th granted acquire found it
BackoffBefore(i) == IF i = 1 THEN RInt(1) ELSE granted[i - 1][4]

\* the i-th and the j-th granted acquire are forced waits with none between them
ConsecutiveForced(i, j) ==
    /\ i < j /\ granted[i][3] /\ granted[j][3]
    /\ \A k \in (i + 1)..(j - 1) : ~granted[k][3]

----------------------------------------------------------------------------
(* The forced-wait path of acquire *)

\* what one step does to the acquire of p, on the forced-wait path
ForcedWaitStep(p) ==
    LET tok == Refill(tokens, now - last_update)
        n == tokens_needed[p]
        wt == RMax(Rat((n - tok) * 60, TOKENS_PER_MINUTE), backoff_time)
        failfast == limiter_kind = "utils" /\ RLess(RInt(FAIL_FAST_SECONDS), wt)
    IN  /\ (/\ lim_pc[p] = "queued" /\ lim_op[p] = "acquire"
            /\ lim_pc'[p] # "queued" /\ tok < n /\ ~failfast)
           => /\ lim_pc'[p] = "sleeping"
              /\ wait_time'[p] = wt
              /\ wake_at'[p] = now + RCeil(wt)
              /\ lock' = p
              /\ tokens' = tok /\ backoff_time' = backoff_time
        /\ (lim_pc[p] = "queued" /\ lim_pc'[p] = "sleeping")
           => tok < n /\ ~failfast
        /\ (lim_pc[p] = "sleeping" /\ lim_pc'[p] # "sleeping")
           => /\ now >= wake_at[p]
              /\ lim_pc'[p] = "returned"
              /\ tokens' = TOKENS_PER_MINUTE - n
              /\ backoff_time' = RMul(backoff_time, 3, 2)
              /\ lock' = NoProc
        /\ (lim_pc[p] = "sleeping" /\ lim_pc'[p] = "sleeping")
           => tokens' = tokens /\ backoff_time' = backoff_time /\ lock' = p

\* C30: when the tokens after the refill are below tokens_needed and fail-fast
\* does not trigger, acquire sleeps for max((tokens_needed - tokens) * 60 /
\* tokens_per_minute, backoff_time) holding the lock, and at the end of the
\* sleep sets tokens to tokens_per_minute - tokens_needed, multiplies
\* backoff_time by 1.5 and returns True.
C30_ForcedWaitPath == [][\A p \in Callers : ForcedWaitStep(p)]_vars

\* an acquire(500) on the empty bucket has slept its 10 s and returned True
C30_Witness ==
    \E p \in Callers :
        /\ lim_pc[p] = "returned" /\ slept[p] = 1
        /\ tokens_needed[p] = 500
        /\ wait_time[p] = RInt(10)
        /\ tokens = TOKENS_PER_MINUTE - 500
        /\ backoff_time = <<3, 2>>

----------------------------------------------------------------------------
(* Cancellation of a suspended acquire *)

\* the coroutines queued on the lock
Queued == {waiters[i] : i \in 1..Len(waiters)}

\* the lock is held only by a coroutine inside its "async with" block
LockHeldBySleeper ==
    /\ lock # NoProc => lim_pc[lock] = "sleeping"
    /\ \A p \in Callers : lim_pc[p] = "cancelled" => p \notin Queued

\* what a step that cancels the acquire of p changes
CancelStep(p) ==
    (lim_pc[p] \in {"queued", "sleeping"} /\ lim_pc'[p] = "cancelled")
    => /\ tokens' = tokens
       /\ backoff_time' = backoff_time
       /\ lock' # p
       /\ lock # p => lock' = lock
       /\ \A o \in Callers \ {p} : lim_pc'[o] = lim_pc[o]
       /\ (lock = p /\ waiters # <<>>) => (waiters' = waiters /\ lock' = NoProc)

\* C26: cancelling a caller that sleeps in acquire or is queued on the lock
\* ends its acquire in that step: it no longer holds the lock or a place in the
\* queue, tokens and backoff_time are as they were, and the caller at the head
\* of the queue finds the lock free.
C26_CancelEndsAcquire == []LockHeldBySleeper /\ [][\A p \in Callers : CancelStep(p)]_vars

\* a sleeping caller was cancelled while another caller is queued behind it
C26_Witness ==
    \E p \in Callers : \E o \in Callers :
        /\ lim_pc[p] = "cancelled" /\ slept[p] = 1
        /\ lim_pc[o] = "queued" /\ lock = NoProc
        /\ backoff_time = RInt(1)

----------------------------------------------------------------------------
(* Construction of GroqAnalysisTool *)

\* the limiter has not been called: nobody holds or awaits its lock and its
\* fields are as constructed
LimiterUntouched ==
    /\ \A p \in Procs : lim_pc[p] = "none"
    /\ lock = NoProc /\ waiters = <<>>
    /\ tokens = TOKENS_PER_MINUTE /\ backoff_time = RInt(1) /\ last_update = 0

\* what a step that constructs a tool leaves behind
ConstructionStep ==
    Len(tools') = Len(tools) + 1
    => LET tool == tools'[Len(tools')]
       IN  /\ tool.obj.name = "analyze_with_groq"
           /\ tool.obj.description = "Tool for analyzing text using Groq API"
           /\ "func" \in tool.obj.methods
           /\ tool.obj.api_key \in ToolKeys
           /\ tool.calls = 0 /\ tool.returned = NoReturn
           /\ \A i \in 1..Len(tools) : tools'[i] = tools[i]
           /\ UNCHANGED limVars

\* C29: a GroqAnalysisTool constructed with any api_key and model has the name
\* 'analyze_with_groq', the description 'Tool for analyzing text using Groq
\* API' and the method func, and its construction calls neither the limiter
\* nor the upstream.
C29_ToolConstruction ==
    /\ [](LimiterUntouched
          /\ \A i \in 1..Len(tools) :
                 /\ tools[i].obj.name = "analyze_with_groq"
                 /\ tools[i].obj.description = "Tool for analyzing text using Groq API"
                 /\ "func" \in tools[i].obj.methods
                 /\ tools[i].calls = 0)
    /\ [][ConstructionStep]_vars

\* tools were constructed with different keys, the test's among them
C29_Witness ==
    /\ Len(tools) = MaxTools
    /\ \E i \in 1..Len(tools) : tools[i].obj.api_key = "test-key"
    /\ \E i \in 1..Len(tools) : tools[i].obj.api_key = ""
    /\ \A i \in 1..Len(tools) : tools[i].returned = NoReturn

----------------------------------------------------------------------------
(* WritingCrew: over-length input and partial results *)

\* C27: input of more than 2000 characters is not rejected: its first 2000
\* characters followed by "..." are what the first stage is asked to analyze
\* and what the returned dict carries as original_text, while input of at most
\* 2000 characters reaches the stages unchanged.
C27_OverlongInputTruncated ==
    crew.pc # "idle" =>
        LET expected == IF crew.given.len > 2000
                        THEN [id |-> crew.given.id, len |-> 2000, dots |-> TRUE]
                        ELSE crew.given
        IN  /\ crew.text = expected
            /\ crew.result.original_text = expected
            /\ (crew.pc = "calling"
                  /\ crew.stage = NextCrewStage(1, crew.focus))
               => crew.prompt_text = expected
            /\ crew.pc = "done"
               => /\ "original_text" \in DOMAIN crew.returned
                  /\ crew.returned.original_text = expected

\* a text of 2001 characters was analyzed and its result returned without error
C27_Witness ==
    /\ crew.pc = "done"
    /\ crew.given.len = 2001
    /\ crew.text = [id |-> "essay", len |-> 2000, dots |-> TRUE]
    /\ "error" \notin DOMAIN crew.returned
    /\ Len(crew.returned.improvements) > 0

\* a stage the call requested has set its analysis to a dict
CrewStageSucceeded(c) ==
    \E n \in StageNames :
        /\ \E i \in 1..Len(c.focus) : c.focus[i] = n
        /\ c.result.analysis[n].kind = "dict"

\* C28: when at least one requested stage succeeded, WritingCrew.analyze_text
\* returns the result of WritingAgents.analyze_text, not the default error
\* response.
C28_PartialResultsReturned ==
    (crew.pc = "done" /\ CrewStageSucceeded(crew))
    => crew.returned = crew.result

----------------------------------------------------------------------------
(* Response recovery *)

\* C23: for a content that is valid JSON, cleaning and then parsing strictly
\* gives the value that parsing the content directly gives, and the recovery
\* of the serialization of a recovered value gives that value again.
C23_RecoveryIdempotent ==
    /\ (recovery.pc \in {"cleaned", "done"} /\ JsonLoads(recovery.content).ok)
       => JsonLoads(recovery.cleaned) = JsonLoads(recovery.content)
    /\ (recovery.pc = "done" /\ recovery.value.ok)
       => ParseTries(clean_json_string(JsonDumps(recovery.value))).value = recovery.value

\* the content is a fenced block around valid JSON
FencedJson(c) ==
    \E d \in Documents : \E tag \in BOOLEAN : \E prose \in BOOLEAN :
        c = Fenced(d, tag, prose) /\ JsonLoads(d).ok

\* C24: a content that wraps valid JSON in a fenced block, with or without
\* the json tag and with or without prose around it, is recovered: the parsing
\* returns a dict.
C24_FencedJsonParsed ==
    (recovery.pc = "done" /\ FencedJson(recovery.content)) => recovery.value.ok

----------------------------------------------------------------------------
(* Concurrent requests *)

\* the texts that come from request r itself: its input and the improved text
\* of the answers to its own upstream calls
OwnTexts(r) == {req[r].text, TwoImproved(r)}

\* the record of request r holds what its own request and its own answers give
OwnData(r) ==
    LET q == req[r]
    IN  /\ q.pc # "idle" =>
               /\ q.improved_text = LastImproved(q, q.stage)
               /\ \A n \in StageNames :
                      /\ q.analysis[n].improved_text \in {NoText, TwoImproved(r)}
                      /\ q.analysis[n].kind = "dict" => InSeq(n, q.finished)
        /\ InProcess(q) =>
               /\ q.prompt_text \in OwnTexts(r)
               /\ q.prompt_text = IF StageOrder[q.stage] = "grammar" THEN q.text
                                  ELSE LastImproved(q, q.stage)
               /\ \A m \in StageNames :
                      IF CanonicalRank(m) < q.stage
                      THEN InFocus(m, q.focus_areas) <=> InSeq(m, q.finished)
                      ELSE ~InSeq(m, q.finished)
        /\ q.pc = "done" =>
               /\ q.improved_text \in OwnTexts(r)
               /\ q.improvements =
                      StageImprovements("grammar", q.analysis["grammar"])
                      \o StageImprovements("style", q.analysis["style"])
                      \o StageImprovements("structure", q.analysis["structure"])

\* a step changes the record of one request at most
OneRequestPerStep ==
    \A r \in Requests : \A o \in Requests \ {r} :
        req'[r] # req[r] => req'[o] = req[o]

\* C25: two analyze_text calls that run concurrently share the limiter only:
\* in every interleaving each call's prompts, analysis, improved_text and
\* improvements come from its own request and the answers to its own upstream
\* calls, each call runs its own stages in the order grammar, style,
\* structure, and no step of one call changes the record of the other.
C25_ConcurrentRequestsIsolated ==
    /\ [](\A r \in Requests : OwnData(r))
    /\ [][OneRequestPerStep]_vars

\* both calls are in flight at different stages, each with an improved text of
\* its own
C25_Witness ==
    /\ req["r1"].pc = "calling" /\ StageOrder[req["r1"].stage] = "structure"
    /\ req["r2"].pc = "calling" /\ StageOrder[req["r2"].stage] = "style"
    /\ req["r1"].prompt_text = "He goes to school every day."
    /\ req["r2"].prompt_text = "She walks to work."

----------------------------------------------------------------------------
(* The path of acquire that does not wait *)

\* what one step does to the acquire of p when the refilled tokens suffice
FreePathStep(p) ==
    LET tok == Min(TOKENS_PER_MINUTE,
                   tokens + ((now - last_update) * TOKENS_PER_MINUTE) \div 60)
        n == tokens_needed[p]
    IN  /\ (/\ lim_pc[p] = "queued" /\ lim_op[p] = "acquire"
            /\ lim_pc'[p] # "queued" /\ tok >= n)
           => /\ lim_pc'[p] = "returned"
              /\ slept'[p] = 0
              /\ now' = now
              /\ tokens' = tok - n
              /\ backoff_time' = RMax(RInt(1), RMul(backoff_time, 9, 10))
              /\ last_update' = now
              /\ lock' = NoProc
        /\ (/\ lim_pc[p] = "queued" /\ lim_op[p] = "acquire"
            /\ lim_pc'[p] = "returned")
           => tok >= n

\* C31: when the tokens after the refill, min(tokens_per_minute, tokens +
\* elapsed seconds * tokens_per_minute / 60), are at least tokens_needed,
\* acquire returns True without sleeping, tokens goes down by exactly
\* tokens_needed from the refilled value and backoff_time becomes
\* max(1.0, 0.9 * backoff_time).
C31_FreePath == [][\A p \in Callers : FreePathStep(p)]_vars

\* after a forced wait raised backoff_time to 1.5, an acquire of 500 passes at
\* once and relaxes it to 1.35
C31_Witness ==
    \E p \in Callers :
        /\ lim_pc[p] = "returned" /\ slept[p] = 0
        /\ tokens_needed[p] = 500
        /\ backoff_time = <<27, 20>>

----------------------------------------------------------------------------
(* What a rejected acquire leaves behind *)

\* tokens after the refill an acquire entered now would compute
RefilledNow ==
    Min(TOKENS_PER_MINUTE,
        tokens + ((now - last_update) * TOKENS_PER_MINUTE) \div 60)

\* the step in which acquire of p raises RateLimitExceeded
FailFastStep(p) ==
    (/\ lim_pc[p] = "queued" /\ lim_op[p] = "acquire"
     /\ lim_pc'[p] = "raised")
    => /\ tokens' = RefilledNow
       /\ last_update' = now
       /\ backoff_time' = backoff_time
       /\ lock' = NoProc
       /\ slept'[p] = 0
       /\ now' = now

\* an acquire entered while the rejection of another caller is still
\* outstanding, asking no more than the refilled tokens
FitsAfterRejection(q) ==
    (/\ \E p \in Callers \ {q} : lim_pc[p] = "raised"
     /\ lim_pc[q] = "queued" /\ lim_op[q] = "acquire"
     /\ lim_pc'[q] # "queued"
     /\ tokens_needed[q] <= RefilledNow)
    => /\ lim_pc'[q] = "returned"
       /\ slept'[q] = 0
       /\ tokens' = RefilledNow - tokens_needed[q]

\* C35: an acquire that fails fast with RateLimitExceeded deducts no tokens
\* and leaves backoff_time unchanged (only the refill of tokens and
\* last_update are applied) and releases the lock, so a later acquire whose
\* tokens_needed fits the refilled tokens succeeds without waiting.
C35_RejectionFrame ==
    /\ [](\A p \in Callers : lim_pc[p] = "raised" => lock # p)
    /\ [][\A p \in Callers : FailFastStep(p) /\ FitsAfterRejection(p)]_vars

\* one caller was rejected and time has passed since; the other is queued on
\* the free lock with a request the refilled tokens cover
C35_Witness ==
    \E p, q \in Callers :
        /\ p # q
        /\ lim_pc[p] = "raised" /\ retry_after[p] > 0
        /\ lim_pc[q] = "queued" /\ lim_op[q] = "acquire"
        /\ lock = NoProc
        /\ last_update < now
        /\ tokens_needed[q] <= RefilledNow

----------------------------------------------------------------------------
(* reset *)

\* the step in which reset of p runs its body
ResetStep(p) ==
    (/\ lim_pc[p] = "queued" /\ lim_op[p] = "reset"
     /\ lim_pc'[p] # "queued")
    => /\ lock = NoProc
       /\ \A q \in Callers : lim_pc[q] # "sleeping"
       /\ lim_pc'[p] = "returned"
       /\ tokens' = TOKENS_PER_MINUTE
       /\ backoff_time' = RInt(1)
       /\ last_update' = now
       /\ lock' = NoProc

\* reset has returned and no acquire has run since
ResetJustDone ==
    /\ \E p \in Callers : lim_op[p] = "reset" /\ lim_pc[p] = "returned"
    /\ tokens = TOKENS_PER_MINUTE
    /\ backoff_time = RInt(1)

\* the acquire that runs first after a reset
AfterResetStep(q) ==
    (/\ ResetJustDone
     /\ lim_pc[q] = "queued" /\ lim_op[q] = "acquire"
     /\ lim_pc'[q] # "queued"
     /\ tokens_needed[q] <= TOKENS_PER_MINUTE)
    => /\ lim_pc'[q] = "returned"
       /\ slept'[q] = 0
       /\ now' = now
       /\ tokens' = TOKENS_PER_MINUTE - tokens_needed[q]

\* C33: reset() waits for any acquire in progress, its backoff sleep
\* included, to finish, then sets tokens to tokens_per_minute and
\* backoff_time to 1.0; an acquire issued right after reset with
\* tokens_needed <= tokens_per_minute succeeds without waiting.
C33_Reset == [][\A p \in Callers : ResetStep(p) /\ AfterResetStep(p)]_vars

\* reset ran at a later time than the start and an acquire of the other
\* caller for the whole budget is queued behind it
C33_Witness ==
    \E p, q \in Callers :
        /\ lim_op[p] = "reset" /\ lim_pc[p] = "returned"
        /\ lim_pc[q] = "queued" /\ lim_op[q] = "acquire"
        /\ tokens_needed[q] = TOKENS_PER_MINUTE
        /\ ResetJustDone
        /\ last_update = now /\ now > 0
        /\ serial[3] = RInt(1) /\ serial[1] = TOKENS_PER_MINUTE

----------------------------------------------------------------------------
(* The range of backoff_time in utils/rate_limiter.py *)

\* backoff_time grows only where a sleep of at most 30 seconds and at least
\* backoff_time ends
BackoffGrowsAfterWait(p) ==
    (lim_pc[p] = "sleeping" /\ lim_pc'[p] = "returned")
    => /\ ~RLess(RInt(30), wait_time[p])
       /\ ~RLess(wait_time[p], backoff_time)
       /\ backoff_time' = RMul(backoff_time, 3, 2)

\* C34: in utils/rate_limiter.py backoff_time is bounded, 1.0 <=
\* backoff_time <= 45 in every reachable state, because it is multiplied by
\* 1.5 only after a wait of at most 30 seconds that is itself at least
\* backoff_time.
C34_BackoffBounded ==
    /\ [](/\ ~RLess(backoff_time, RInt(1))
          /\ ~RLess(RInt(45), backoff_time))
    /\ [][/\ \A p \in Callers : BackoffGrowsAfterWait(p)
          /\ RLess(backoff_time, backoff_time')
                 => \E p \in Callers : lim_pc[p] = "sleeping" /\ lim_pc'[p] = "returned"]_vars

\* a forced wait that began with backoff_time at most 30 has ended and left
\* backoff_time above 30
C34_Witness ==
    \E p \in Callers :
        /\ lim_pc[p] = "returned" /\ slept[p] = 1
        /\ RLess(RInt(30), backoff_time)
        /\ ~RLess(RInt(30), wait_time[p])

----------------------------------------------------------------------------
(* Termination of acquire in utils/rate_limiter.py *)

\* acquire of p is under way: queued on the lock or in its sleep
AcquireUnderWay(p) ==
    lim_op[p] = "acquire" /\ lim_pc[p] \in {"queued", "sleeping"}

\* acquire of p has returned True or raised RateLimitExceeded
AcquireEnded(p) == lim_pc[p] \in {"returned", "raised"}

\* C36: every acquire call on the limiter of utils/rate_limiter.py
\* terminates: once it holds the lock it returns True or raises
\* RateLimitExceeded after at most one sleep of at most 30 seconds, and each
\* of the callers queued on the lock eventually obtains it.
C36_AcquireTerminates ==
    /\ [](\A p \in Callers :
             /\ slept[p] <= 1
             /\ lim_pc[p] = "sleeping"
                    => /\ ~RLess(RInt(30), wait_time[p])
                       /\ wake_at[p] <= last_update + 30)
    /\ \A p \in Callers : (lim_pc[p] = "queued") ~> (lim_pc[p] # "queued")
    /\ \A p \in Callers : AcquireUnderWay(p) ~> AcquireEnded(p)

\* the acquire of one caller entered at the very time the sleep of the other
\* ended, having queued behind it, and has ended as well
C36_Witness ==
    \E p, q \in Callers :
        /\ p # q
        /\ lim_pc[p] = "returned" /\ lim_op[p] = "acquire" /\ slept[p] = 1
        /\ wake_at[p] = now /\ last_update = now
        /\ lim_op[q] = "acquire" /\ AcquireEnded(q)

----------------------------------------------------------------------------
(* Admission of the upstream calls of _process_with_agent *)

\* len(prompt.split()) + 500 for the prompt of the stage under way
StageEstimate(q) == PromptWords(StageOrder[q.stage], q.style, q.prompt_text) + 500

\* litellm.acompletion is called only on an acquire of the attempt that
\* returned True for the estimate
UpstreamAdmitted(r) ==
    req'[r].n_upstream # req[r].n_upstream /\ req'[r].pc = "calling"
    => /\ req[r].pc = "acquiring"
       /\ lim_pc[r] = "returned" /\ lim_op[r] = "acquire"
       /\ tokens_needed[r] = StageEstimate(req[r])
       /\ req'[r].n_upstream = req[r].n_upstream + 1
       /\ req'[r].n_upstream <= req[r].n_acquire
       /\ lim_pc'[r] = "none"

\* the acquire of an attempt returns True: the estimate is deducted, from the
\* refilled tokens or, after a forced wait, from the whole budget
DeductedOnce(r) ==
    lim_pc[r] # "returned" /\ lim_pc'[r] = "returned"
    => /\ req[r].pc = "acquiring" /\ req'[r] = req[r]
       /\ tokens' = (IF lim_pc[r] = "sleeping" THEN TOKENS_PER_MINUTE ELSE RefilledNow)
                         - StageEstimate(req[r])

\* the steps of the request outside acquire leave the tokens alone, whatever
\* the upstream call answered
NotGivenBack(r) == req'[r] # req[r] => tokens' = tokens

\* C32: in WritingAgent._process_with_agent every upstream call is preceded,
\* within the same attempt, by an acquire of len(prompt.split()) + 500 tokens
\* that returned True, so no upstream call is made without admission; each
\* attempt that reaches the upstream call deducts that estimate once more,
\* and the tokens deducted for an attempt whose upstream call fails are
\* never given back.
C32_AdmissionBeforeUpstream ==
    /\ [](\A r \in Requests :
             /\ req[r].n_upstream <= req[r].n_acquire
             /\ req[r].pc = "calling" => req[r].n_upstream = req[r].n_acquire)
    /\ [][\A r \in Requests :
             UpstreamAdmitted(r) /\ DeductedOnce(r) /\ NotGivenBack(r)]_vars

\* the third upstream call of the grammar stage is under way, the first two
\* having failed: 513 tokens were deducted at the times 0, 3 and 9
C32_Witness ==
    \E r \in Requests :
        /\ req[r].pc = "calling"
        /\ req[r].prompt_text = "He go to school everyday."
        /\ req[r].stage = 1
        /\ req[r].n_upstream = 3
        /\ now = 9
        /\ tokens = 1911

\* the acquire of an attempt ends, by return or by RateLimitExceeded, with the
\* estimate deducted
AttemptDeducts(r) ==
    (/\ req[r].pc = "acquiring"
     /\ lim_pc[r] \in {"queued", "sleeping"}
     /\ lim_pc'[r] \in {"returned", "raised"})
    => tokens' = (IF lim_pc[r] = "sleeping" THEN TOKENS_PER_MINUTE ELSE RefilledNow)
                     - StageEstimate(req[r])

\* C32 as stated: a stage that takes k attempts deducts the estimate k times,
\* that is, every attempt deducts it.
C32_EveryAttemptDeducts == [][\A r \in Requests : AttemptDeducts(r)]_vars

----------------------------------------------------------------------------
(* Upstream exceptions other than litellm.RateLimitError *)

\* the upstream call raises an exception that is no RateLimitError
OtherException == [kind |-> "Exception", value |-> RNone]

\* what such an exception makes of the request q whose upstream call is under way
ExceptionHandled(q) ==
    LET after == AfterUpstream(q, OtherException)
        name == StageOrder[q.stage]
    IN  /\ after.pc # "raised" /\ after.exc = "none"
        /\ q.attempt < 2
               => /\ after.pc = "retry_sleep"
                  /\ after.retry_wake = now + 3 * Pow2(q.attempt)
                  /\ after.attempt = q.attempt
                  /\ after.stage = q.stage
                  /\ after.analysis = q.analysis
        /\ q.attempt >= 2
               => /\ q.attempt = 2
                  /\ after.pc = "stage"
                  /\ after.stage = q.stage + 1
                  /\ after.analysis = q.analysis
                  /\ after.analysis[name] = ANull
                  /\ after.improved_text = q.improved_text
                  /\ name \in after.failed

\* the retry sleep lasts until its time is over and the next attempt follows
RetryFollows(r) ==
    /\ (req[r].pc = "retry_sleep" /\ req'[r].pc # "retry_sleep")
           => /\ now >= req[r].retry_wake
              /\ req'[r].pc = "next_attempt"
              /\ req'[r].attempt = req[r].attempt
    /\ (req[r].pc = "next_attempt" /\ req[r].attempt < 2 /\ req'[r] # req[r])
           => /\ req'[r].pc = "acquiring"
              /\ req'[r].attempt = req[r].attempt + 1

\* C37: an exception of the upstream call other than litellm.RateLimitError
\* is handled like a transient failure: the attempt is retried after
\* base_delay * 2^attempt seconds until 3 attempts are used, then the stage
\* returns None; the exception never propagates out of
\* _process_with_agent.
C37_OtherExceptionsRetried ==
    /\ [](\A r \in Requests : req[r].pc = "calling" => ExceptionHandled(req[r]))
    /\ [][\A r \in Requests : RetryFollows(r)]_vars

\* the third upstream call of the grammar stage is under way at time 9, after
\* retry sleeps of 3 and 6 seconds, and an exception now ends the stage with None
C37_Witness ==
    \E r \in Requests :
        /\ req[r].pc = "calling"
        /\ req[r].attempt = 2 /\ req[r].n_upstream = 3
        /\ now = 9
        /\ AfterUpstream(req[r], OtherException).failed = {"grammar"}

----------------------------------------------------------------------------
(* focus_areas empty or None in WritingCrew.analyze_text *)

\* the call under way was made with focus_areas None or []
AskedNothing == crew.pc # "idle" /\ (crew.asked.is_none \/ crew.asked.items = <<>>)

\* with focus_areas None or [] the call starts with the grammar block and
\* goes from each block to the next, or ends early where the block's response
\* carries an "analysis" that is no dict, which raises TypeError
AllThreeInOrder ==
    /\ (crew.pc = "idle" /\ crew'.pc # "idle"
            /\ (crew'.asked.is_none \/ crew'.asked.items = <<>>))
           => crew'.pc = "calling" /\ crew'.stage = 1
    /\ (AskedNothing /\ crew.pc = "calling" /\ crew.stage < 3)
           => \/ crew'.pc = "calling" /\ crew'.stage = crew.stage + 1
              \/ /\ crew'.pc = "done"
                 /\ crew'.result.analysis[StageOrder[crew.stage]].kind # "dict"
    /\ (AskedNothing /\ crew.pc = "calling" /\ crew.stage = 3)
           => crew'.pc = "done"

EveryBlockRuns ==
    (AskedNothing /\ crew.pc = "calling" /\ crew.stage < 3)
    => crew'.pc = "calling" /\ crew'.stage = crew.stage + 1

----------------------------------------------------------------------------
(* What GroqAnalysisTool.func returns *)

\* _wait_for_rate_limit asks the limiter of the class for 100 tokens
ToolEstimate == 100

\* the limiter would let a call of the tool pass without a wait
LimiterWouldPass == lock = NoProc /\ RefilledNow >= ToolEstimate

\* C39: GroqAnalysisTool.func never raises, and for a task whose rate-limit
\* wait and upstream completion would succeed it reaches _make_api_call and
\* returns the content of the model's message; the JSON string with the keys
\* 'error' and 'result' is returned only when the limiter or the upstream
\* call fails.
C39_FuncReturnsContent ==
    \A i \in 1..Len(tools) :
        (tools[i].returned # NoReturn /\ LimiterWouldPass)
        => /\ tools[i].calls >= 1
           /\ "error" \notin DOMAIN tools[i].returned

============================================================================
